---- MODULE Spec2Model ----
(***************************************************************************)
(* littlemanplus: the assembler (lmp-lang/src/parser.rs), the instruction  *)
(* codec (lmp-common/src/assembly.rs) and the virtual machine              *)
(* (littlemanplus/src/interpreter/vm.rs) as one state machine.             *)
(*                                                                         *)
(* A source text is a sequence of lines (the text split at its newlines),  *)
(* a line is a sequence of one-character strings.  An Option<i64> is a     *)
(* sequence of length 0 (None) or 1 (Some).  A Rust panic ends the process:*)
(* the call is recorded with result "Panic" and no operation follows it.   *)
(* All values the model computes stay far inside the i64 range.            *)
(***************************************************************************)
EXTENDS Integers, Sequences, FiniteSets, TLC

VARIABLES
    program_counter,  \* vm.rs:9   VirtualMachine.program_counter
    accumulator,      \* vm.rs:10  VirtualMachine.accumulator
    memory,           \* vm.rs:12  VirtualMachine.memory, as [0..MEMORY_SIZE-1 -> Int]
    halted,           \* vm.rs:14  VirtualMachine.halted
    input_buffer,     \* vm.rs:17  VirtualMachine.input_buffer
    cycles,           \* vm.rs:20  VirtualMachine.cycles
    accessing,        \* vm.rs:22  VirtualMachine.accessing
    call,             \* the last call made on the VM and what it returned
    prev,             \* the call made before it
    compiles,         \* number of compile() calls made so far
    instr,            \* codec: the instruction given to encode
    cell,             \* codec: the integer produced by encode / given to decode
    decoded,          \* codec: the result of decode
    stage,            \* codec: "idle", "instr", "encoded", "roundtrip", "raw", "probed"
    asm_input,        \* assembler: the source given to assemble
    asm_result,       \* assembler: the values assemble returned, one per call
    program_textarea, \* host: interface.rs:20 TerminalInterface.program_textarea, by id
    outputs,          \* host: interface.rs:21 TerminalInterface.outputs
    inputs,           \* host: interface.rs:23 TerminalInterface.inputs
    vm_on,            \* host: interface.rs:26 TerminalInterface.vm_on
    current_popup,    \* host: interface.rs:28 the error shown, None if no popup is up
    current_modal,    \* host: interface.rs:29 the text typed in the modal, None if none is up
    should_exit,      \* host: interface.rs:17 TerminalInterface.should_exit
    loop_at           \* host: where run() is in its loop, "event" (91-95) or "vm" (98-127)

vmvars == <<program_counter, accumulator, memory, halted, input_buffer, cycles, accessing>>
codecvars == <<instr, cell, decoded, stage>>
asmvars == <<asm_input, asm_result>>
hostctl == <<inputs, vm_on, current_popup, current_modal, should_exit, loop_at>>
hostvars == <<program_textarea, outputs, inputs, vm_on, current_popup, current_modal,
              should_exit, loop_at>>
vars == <<program_counter, accumulator, memory, halted, input_buffer, cycles, accessing,
          call, prev, compiles, instr, cell, decoded, stage, asm_input, asm_result,
          program_textarea, outputs, inputs, vm_on, current_popup, current_modal,
          should_exit, loop_at>>

(***************************************************************************)
(* Program constant and model bounds                                       *)
(***************************************************************************)
\* lmp_common::MEMORY_SIZE (lmp-common/src/lib.rs): the machine capacity N.
MEMORY_SIZE == 100

\* Step() is not taken once the cycle counter has reached MaxCycles.
MaxCycles == 8
\* compile() is called at most MaxCompiles times in one run.
MaxCompiles == 2
\* The raw cell values given to decode are -MaxProbe .. 13999 + MaxProbe.
MaxProbe == 40
\* assemble() is called at most MaxAssembles times on one source.
MaxAssembles == 2
\* The host stops stepping once the cycle counter has reached MaxRunCycles.
MaxRunCycles == 1000

\* The text typed into the input modal has at most MaxModalText characters.
MaxModalText == 2

\* The values the host passes to input().
InputValues == {0, 4}

\* let x = e in F(x), with e evaluated once
Bind(e, F(_)) == CHOOSE y \in {F(x) : x \in {e}} : TRUE

(***************************************************************************)
(* Instruction codec: lmp-common/src/assembly.rs                           *)
(***************************************************************************)
\* Instruction<i64>: op is the variant, data its payload (0 for a unit variant).
Ins(op, data) == [op |-> op, data |-> data]

OperandOps == {"ADD", "SUB", "STA", "LDA", "BRA", "BRZ", "BRP", "BWA", "BWO", "BWX"}
FixedOps == {"HLT", "INP", "OUT", "BWN"}

\* Result<Instruction, ()>::Err(())
DecodeErr == [op |-> "Err", data |-> 0]

\* impl Into<i64> for Instruction<i64>
encode(i) ==
    CASE i.op = "HLT" -> 1
      [] i.op = "INP" -> 901
      [] i.op = "OUT" -> 902
      [] i.op = "BWN" -> 10000
      [] i.op = "ADD" -> 1000 + i.data
      [] i.op = "SUB" -> 2000 + i.data
      [] i.op = "STA" -> 3000 + i.data
      [] i.op = "LDA" -> 5000 + i.data
      [] i.op = "BRA" -> 6000 + i.data
      [] i.op = "BRZ" -> 7000 + i.data
      [] i.op = "BRP" -> 8000 + i.data
      [] i.op = "BWA" -> 11000 + i.data
      [] i.op = "BWO" -> 12000 + i.data
      [] i.op = "BWX" -> 13000 + i.data
      [] i.op = "DAT" -> i.data

\* decode with the BRP band read as BRZ (a copied match arm).
decode_wrong_band(value) ==
    CASE value = 1 -> Ins("HLT", 0)
      [] value = 901 -> Ins("INP", 0)
      [] value = 902 -> Ins("OUT", 0)
      [] value = 10000 -> Ins("BWN", 0)
      [] value >= 1000 /\ value <= 1999 -> Ins("ADD", value - 1000)
      [] value >= 2000 /\ value <= 2999 -> Ins("SUB", value - 2000)
      [] value >= 3000 /\ value <= 3999 -> Ins("STA", value - 3000)
      [] value >= 5000 /\ value <= 5999 -> Ins("LDA", value - 5000)
      [] value >= 6000 /\ value <= 6999 -> Ins("BRA", value - 6000)
      [] value >= 7000 /\ value <= 7999 -> Ins("BRZ", value - 7000)
      [] value >= 8000 /\ value <= 8999 -> Ins("BRZ", value - 8000)
      [] value >= 11000 /\ value <= 11999 -> Ins("BWA", value - 11000)
      [] value >= 12000 /\ value <= 12999 -> Ins("BWO", value - 12000)
      [] value >= 13000 /\ value <= 13999 -> Ins("BWX", value - 13000)
      [] OTHER -> DecodeErr

\* decode with the band 4000..=4999 accepted as a second STA band.
decode_extra_band(value) ==
    CASE value = 1 -> Ins("HLT", 0)
      [] value = 901 -> Ins("INP", 0)
      [] value = 902 -> Ins("OUT", 0)
      [] value = 10000 -> Ins("BWN", 0)
      [] value >= 1000 /\ value <= 1999 -> Ins("ADD", value - 1000)
      [] value >= 2000 /\ value <= 2999 -> Ins("SUB", value - 2000)
      [] value >= 3000 /\ value <= 4999 -> Ins("STA", value - 3000)
      [] value >= 5000 /\ value <= 5999 -> Ins("LDA", value - 5000)
      [] value >= 6000 /\ value <= 6999 -> Ins("BRA", value - 6000)
      [] value >= 7000 /\ value <= 7999 -> Ins("BRZ", value - 7000)
      [] value >= 8000 /\ value <= 8999 -> Ins("BRP", value - 8000)
      [] value >= 11000 /\ value <= 11999 -> Ins("BWA", value - 11000)
      [] value >= 12000 /\ value <= 12999 -> Ins("BWO", value - 12000)
      [] value >= 13000 /\ value <= 13999 -> Ins("BWX", value - 13000)
      [] OTHER -> DecodeErr

\* impl TryFrom<i64> for Instruction<i64>: the first matching arm wins.
decode(value) ==
    CASE value = 1 -> Ins("HLT", 0)
      [] value = 901 -> Ins("INP", 0)
      [] value = 902 -> Ins("OUT", 0)
      [] value = 10000 -> Ins("BWN", 0)
      [] value >= 1000 /\ value <= 1999 -> Ins("ADD", value - 1000)
      [] value >= 2000 /\ value <= 2999 -> Ins("SUB", value - 2000)
      [] value >= 3000 /\ value <= 3999 -> Ins("STA", value - 3000)
      [] value >= 5000 /\ value <= 5999 -> Ins("LDA", value - 5000)
      [] value >= 6000 /\ value <= 6999 -> Ins("BRA", value - 6000)
      [] value >= 7000 /\ value <= 7999 -> Ins("BRZ", value - 7000)
      [] value >= 8000 /\ value <= 8999 -> Ins("BRP", value - 8000)
      [] value >= 11000 /\ value <= 11999 -> Ins("BWA", value - 11000)
      [] value >= 12000 /\ value <= 12999 -> Ins("BWO", value - 12000)
      [] value >= 13000 /\ value <= 13999 -> Ins("BWX", value - 13000)
      [] OTHER -> DecodeErr

(***************************************************************************)
(* Assembler grammar: lmp-lang/src/parser.rs                               *)
(* Positions are 1-based indexes of the next unread character of a line.   *)
(***************************************************************************)
UpperCh == {"A","B","C","D","E","F","G","H","I","J","K","L","M",
            "N","O","P","Q","R","S","T","U","V","W","X","Y","Z"}
LowerCh == {"a","b","c","d","e","f","g","h","i","j","k","l","m",
            "n","o","p","q","r","s","t","u","v","w","x","y","z"}
DigitCh == {"0","1","2","3","4","5","6","7","8","9"}
\* text::inline_whitespace: whitespace other than a newline
WsCh == {" ", "\t"}
\* text::ascii::ident: [a-zA-Z_][a-zA-Z0-9_]*
IdentStart == UpperCh \cup LowerCh \cup {"_"}
IdentCont == IdentStart \cup DigitCh

DigitVal(c) ==
    CASE c = "0" -> 0 [] c = "1" -> 1 [] c = "2" -> 2 [] c = "3" -> 3 [] c = "4" -> 4
      [] c = "5" -> 5 [] c = "6" -> 6 [] c = "7" -> 7 [] c = "8" -> 8 [] c = "9" -> 9

\* The first position at or after i whose character is not in S (Len(s)+1 if none).
SkipWhile(s, i, S) ==
    IF i > Len(s) THEN i
    ELSE CHOOSE j \in i..(Len(s) + 1) :
            /\ j > Len(s) \/ s[j] \notin S
            /\ \A k \in i..(j - 1) : s[k] \in S

\* str::parse::<i64> of a string of decimal digits
RECURSIVE ParseInt(_)
ParseInt(ds) ==
    IF ds = <<>> THEN 0
    ELSE 10 * ParseInt(SubSeq(ds, 1, Len(ds) - 1)) + DigitVal(ds[Len(ds)])

\* num(): text::int(10), a single 0 or a nonzero digit followed by digits
num(s, i) ==
    IF i > Len(s) \/ s[i] \notin DigitCh THEN [ok |-> FALSE, n |-> 0, pos |-> i]
    ELSE IF s[i] = "0" THEN [ok |-> TRUE, n |-> 0, pos |-> i + 1]
    ELSE Bind(SkipWhile(s, i + 1, DigitCh), LAMBDA j :
             [ok |-> TRUE, n |-> ParseInt(SubSeq(s, i, j - 1)), pos |-> j])

\* label(): optional whitespace, then an identifier that is not all uppercase
label(s, i) ==
    Bind(SkipWhile(s, i, WsCh), LAMBDA a :
        IF a > Len(s) \/ s[a] \notin IdentStart
        THEN [ok |-> FALSE, text |-> <<>>, pos |-> i]
        ELSE Bind(SkipWhile(s, a + 1, IdentCont), LAMBDA b :
                 IF \A k \in a..(b - 1) : s[k] \in UpperCh
                 THEN [ok |-> FALSE, text |-> <<>>, pos |-> i]
                 ELSE [ok |-> TRUE, text |-> SubSeq(s, a, b - 1), pos |-> b]))

\* whitespace(): at least one inline whitespace character
whitespace(s, i) ==
    Bind(SkipWhile(s, i, WsCh), LAMBDA j : [ok |-> j > i, pos |-> j])

\* NodeInstructionData: Num(n), Label(name) or Pointer(name); "None" for a unit variant
NodeData(kind, n, name) == [kind |-> kind, n |-> n, name |-> name]
NoData == NodeData("None", 0, <<>>)

\* instruction_input(): num() or the regex [a-zA-Z_@][a-zA-Z0-9_]*, and the From impls
instruction_input(s, i) ==
    Bind(num(s, i), LAMBDA r :
        IF r.ok THEN [ok |-> TRUE, data |-> NodeData("Num", r.n, <<>>), pos |-> r.pos]
        ELSE IF i > Len(s) \/ s[i] \notin (IdentStart \cup {"@"})
        THEN [ok |-> FALSE, data |-> NoData, pos |-> i]
        ELSE Bind(SkipWhile(s, i + 1, IdentCont), LAMBDA j :
                 IF s[i] = "@"
                 THEN [ok |-> TRUE, data |-> NodeData("Pointer", 0, SubSeq(s, i + 1, j - 1)),
                       pos |-> j]
                 ELSE [ok |-> TRUE, data |-> NodeData("Label", 0, SubSeq(s, i, j - 1)),
                       pos |-> j]))

Mnemonic(m) ==
    CASE m = <<"I","N","P">> -> "INP" [] m = <<"O","U","T">> -> "OUT"
      [] m = <<"H","L","T">> -> "HLT" [] m = <<"B","W","N">> -> "BWN"
      [] m = <<"L","D","R">> -> "LDR" [] m = <<"D","A","T">> -> "DAT"
      [] m = <<"A","D","D">> -> "ADD" [] m = <<"S","U","B">> -> "SUB"
      [] m = <<"S","T","A">> -> "STA" [] m = <<"L","D","A">> -> "LDA"
      [] m = <<"B","R","A">> -> "BRA" [] m = <<"B","R","Z">> -> "BRZ"
      [] m = <<"B","R","P">> -> "BRP" [] m = <<"B","W","A">> -> "BWA"
      [] m = <<"B","W","O">> -> "BWO" [] m = <<"B","W","X">> -> "BWX"
      [] OTHER -> "none"

\* instruction(): any indent, then the first alternative of the choice that matches
instruction(s, i) ==
    Bind(SkipWhile(s, i, WsCh), LAMBDA a :
    Bind(IF a + 2 <= Len(s) THEN Mnemonic(SubSeq(s, a, a + 2)) ELSE "none", LAMBDA op :
        CASE op = "none" -> [ok |-> FALSE, op |-> op, data |-> NoData, pos |-> i]
          [] op \in {"INP", "OUT", "HLT", "BWN", "LDR"} ->
                [ok |-> TRUE, op |-> op, data |-> NoData, pos |-> a + 3]
          [] op = "DAT" ->
                Bind(whitespace(s, a + 3), LAMBDA w :
                Bind(num(s, w.pos), LAMBDA r :
                    IF w.ok /\ r.ok
                    THEN [ok |-> TRUE, op |-> op, data |-> NodeData("Num", r.n, <<>>),
                          pos |-> r.pos]
                    ELSE [ok |-> TRUE, op |-> op, data |-> NodeData("Num", 0, <<>>),
                          pos |-> a + 3]))
          [] OTHER ->
                Bind(whitespace(s, a + 3), LAMBDA w :
                Bind(instruction_input(s, w.pos), LAMBDA r :
                    IF w.ok /\ r.ok
                    THEN [ok |-> TRUE, op |-> op, data |-> r.data, pos |-> r.pos]
                    ELSE [ok |-> FALSE, op |-> op, data |-> NoData, pos |-> i]))))

\* labeled_line(): an optional label followed by whitespace, an instruction, and
\* trailing whitespace; ok only if the whole line is consumed. label is an Option.
labeled_line(s) ==
    Bind(label(s, 1), LAMBDA l :
    Bind(whitespace(s, l.pos), LAMBDA w :
    Bind(instruction(s, IF l.ok /\ w.ok THEN w.pos ELSE 1), LAMBDA ins :
        [ok |-> ins.ok /\ SkipWhile(s, ins.pos, WsCh) > Len(s),
         label |-> IF l.ok /\ w.ok THEN <<l.text>> ELSE <<>>,
         op |-> ins.op, data |-> ins.data])))

IsBlank(s) == \A k \in 1..Len(s) : s[k] \in WsCh

\* str::trim on the whole text: whitespace-only lines at both ends go, and so do the
\* indent of the first line left and the trailing whitespace of the last.
trim(src) ==
    Bind(src, LAMBDA t :
        IF \A k \in 1..Len(t) : IsBlank(t[k]) THEN <<>>
        ELSE Bind(CHOOSE f \in 1..Len(t) :
                      ~IsBlank(t[f]) /\ \A k \in 1..(f - 1) : IsBlank(t[k]), LAMBDA first :
             Bind(CHOOSE g \in 1..Len(t) :
                      ~IsBlank(t[g]) /\ \A k \in (g + 1)..Len(t) : IsBlank(t[k]), LAMBDA last :
                 [k \in 1..(last - first + 1) |->
                     Bind(t[first + k - 1], LAMBDA s :
                          SubSeq(s,
                                 IF k = 1 THEN SkipWhile(s, 1, WsCh) ELSE 1,
                                 IF first + k - 1 = last
                                 THEN CHOOSE j \in 1..Len(s) :
                                          s[j] \notin WsCh /\ \A m \in (j + 1)..Len(s) : s[m] \in WsCh
                                 ELSE Len(s)))])))

\* parse(): labeled lines separated by one or more newlines, leading and trailing
\* newlines allowed, then end of input. An empty line is a run of separators.
parse(src) ==
    Bind(SelectSeq(src, LAMBDA l : l # <<>>), LAMBDA lines :
    Bind([k \in 1..Len(lines) |-> labeled_line(lines[k])], LAMBDA nodes :
        IF \A k \in 1..Len(lines) : nodes[k].ok
        THEN [ok |-> TRUE,
              ast |-> [k \in 1..Len(lines) |->
                          [label |-> nodes[k].label, op |-> nodes[k].op,
                           data |-> nodes[k].data]]]
        ELSE [ok |-> FALSE, ast |-> <<>>]))

(***************************************************************************)
(* Label resolution: lmp-lang/src/parser.rs, resolve_labels and assemble   *)
(***************************************************************************)
\* FIRST PASS: labels.insert(label, addr) for each node in order; a label defined
\* twice keeps its last address. The set of 0-based addresses of the label l:
LabelAddrs(ast, l) == {a \in 0..(Len(ast) - 1) : ast[a + 1].label = <<l>>}
HasLabel(ast, l) == LabelAddrs(ast, l) # {}
\* labels.get(l) that counts the lines from 1.
LabelAddr_from_one(ast, l) ==
    1 + (CHOOSE a \in LabelAddrs(ast, l) : \A b \in LabelAddrs(ast, l) : b <= a)

\* labels.get(l)
LabelAddr(ast, l) == CHOOSE a \in LabelAddrs(ast, l) : \A b \in LabelAddrs(ast, l) : b <= a

\* SECOND PASS, one node: the label_to_addr! match. "Panic" is expect()/panic!().
resolve_node(ast, node) ==
    CASE node.op \in OperandOps /\ node.data.kind = "Num" ->
            [res |-> "Ok", ins |-> Ins(node.op, node.data.n)]
      [] node.op \in OperandOps /\ node.data.kind = "Label" ->
            IF HasLabel(ast, node.data.name)
            THEN [res |-> "Ok", ins |-> Ins(node.op, LabelAddr(ast, node.data.name))]
            ELSE [res |-> "Panic", ins |-> Ins(node.op, 0)]
      [] node.op \in OperandOps /\ node.data.kind = "Pointer" ->
            IF HasLabel(ast, node.data.name)
            THEN [res |-> "Ok",
                  ins |-> Ins(node.op, LabelAddr(ast, node.data.name) + MEMORY_SIZE)]
            ELSE [res |-> "Panic", ins |-> Ins(node.op, 0)]
      [] node.op = "DAT" /\ node.data.kind = "Num" ->
            [res |-> "Ok", ins |-> Ins("DAT", node.data.n)]
      [] node.op \in {"BWN", "INP", "OUT", "HLT"} ->
            [res |-> "Ok", ins |-> Ins(node.op, 0)]
      [] OTHER -> [res |-> "Panic", ins |-> Ins(node.op, 0)]

\* resolve_labels: Ok(the resolved instructions), or the process panics at the
\* first node that does not resolve.
resolve_labels(ast) ==
    Bind([k \in 1..Len(ast) |-> resolve_node(ast, ast[k])], LAMBDA r :
        IF \E k \in 1..Len(ast) : r[k].res = "Panic"
        THEN [res |-> "Panic", prog |-> <<>>]
        ELSE [res |-> "Ok", prog |-> [k \in 1..Len(ast) |-> r[k].ins]])

\* assemble: a parse error is Err(()), otherwise resolve_labels
assemble(input) ==
    Bind(input, LAMBDA text :
    Bind(parse(text), LAMBDA p :
        IF ~p.ok THEN [res |-> "Err", prog |-> <<>>]
        ELSE resolve_labels(p.ast)))

(***************************************************************************)
(* Virtual machine: littlemanplus/src/interpreter/vm.rs                    *)
(* The operations are functions from the VM (a record of its fields) to    *)
(* the VM after the call and the value returned.                           *)
(***************************************************************************)
None == <<>>
Some(x) == <<x>>

\* The VirtualMachine struct as a record of the state variables
VM == [program_counter |-> program_counter, accumulator |-> accumulator,
       memory |-> memory, halted |-> halted, input_buffer |-> input_buffer,
       cycles |-> cycles, accessing |-> accessing]

\* [MemoryCell::default(); MEMORY_SIZE]
ZeroMemory == [a \in 0..(MEMORY_SIZE - 1) |-> 0]

\* VirtualMachine::new
new == [program_counter |-> 0, accumulator |-> 0, memory |-> ZeroMemory,
        cycles |-> 0, accessing |-> 0, halted |-> FALSE, input_buffer |-> None]

\* What a call gives back: the VM after it, the result, and Output's payload
Ret(v, res, out) == [vm |-> v, res |-> res, out |-> out]

\* i64 bitwise operators on two's complement integers
BitNot(a) == 0 - a - 1
RECURSIVE BitAnd(_, _)
BitAnd(a, b) ==
    IF a = 0 \/ b = 0 THEN 0
    ELSE IF a = -1 THEN b
    ELSE IF b = -1 THEN a
    ELSE (IF a % 2 = 1 /\ b % 2 = 1 THEN 1 ELSE 0) + 2 * BitAnd(a \div 2, b \div 2)
BitOr(a, b) == BitNot(BitAnd(BitNot(a), BitNot(b)))
BitXor(a, b) == BitAnd(BitOr(a, b), BitNot(BitAnd(a, b)))

\* reset that clears the VM whether it is halted or not.
reset_always(v) ==
    [v EXCEPT !.memory = ZeroMemory, !.cycles = 0, !.accessing = 0,
              !.accumulator = 0, !.program_counter = 0, !.input_buffer = None]

\* reset that also clears the halted flag.
reset_clears_halted(v) ==
    IF ~v.halted THEN v
    ELSE [v EXCEPT !.memory = ZeroMemory, !.cycles = 0, !.accessing = 0,
                   !.accumulator = 0, !.program_counter = 0, !.input_buffer = None,
                   !.halted = FALSE]

\* reset: does nothing if the VM is not halted
reset(v) ==
    IF ~v.halted THEN v
    ELSE [v EXCEPT !.memory = ZeroMemory, !.cycles = 0, !.accessing = 0,
                   !.accumulator = 0, !.program_counter = 0, !.input_buffer = None]

\* write: panics when loc is out of bounds
write(v, loc, data) ==
    IF loc >= MEMORY_SIZE THEN Ret(v, "Panic", 0)
    ELSE Ret([v EXCEPT !.memory[loc] = data], "Ok", 0)

\* ptr_to_loc: `ptr as usize` turns a negative ptr into a value above 2*MEMORY_SIZE.
\* Memory does not change during the resolution, so a chain that comes to a cell it
\* has already read goes round for ever (stack exhaustion or an endless loop, by
\* build): "Diverge". visited is the set of cells read so far.
RECURSIVE ptr_to_loc_from(_, _, _)
ptr_to_loc_from(v, ptr, visited) ==
    IF ptr < 0 \/ ptr >= MEMORY_SIZE * 2 THEN [vm |-> v, res |-> "Panic", loc |-> 0]
    ELSE IF ptr > MEMORY_SIZE
    THEN Bind(ptr - MEMORY_SIZE, LAMBDA resolved_loc :
             IF resolved_loc \in visited
             THEN [vm |-> [v EXCEPT !.accessing = resolved_loc], res |-> "Diverge",
                   loc |-> 0]
             ELSE Bind([v EXCEPT !.accessing = resolved_loc], LAMBDA v1 :
                  Bind(v1.memory[resolved_loc], LAMBDA next :
                  Bind(visited \cup {resolved_loc}, LAMBDA seen :
                      ptr_to_loc_from(v1, next, seen)))))
    ELSE [vm |-> [v EXCEPT !.accessing = ptr], res |-> "Ok", loc |-> ptr]

ptr_to_loc(v, ptr) ==
    Bind(v, LAMBDA v0 : Bind(ptr, LAMBDA p : ptr_to_loc_from(v0, p, {})))

\* ptr_write
ptr_write(v, ptr, data) ==
    Bind(ptr_to_loc(v, ptr), LAMBDA r :
        IF r.res # "Ok" THEN Ret(r.vm, r.res, 0)
        ELSE write(r.vm, r.loc, data))

\* ptr_get: self.memory[loc] panics when loc = MEMORY_SIZE. out is the cell's data.
ptr_get(v, ptr) ==
    Bind(ptr_to_loc(v, ptr), LAMBDA r :
        IF r.res # "Ok" THEN Ret(r.vm, r.res, 0)
        ELSE IF r.loc >= MEMORY_SIZE THEN Ret(r.vm, "Panic", 0)
        ELSE Ret(r.vm, "Ok", r.vm.memory[r.loc]))

\* branch whose bounds check lets the address MEMORY_SIZE through.
branch_allows_edge(v, ptr) ==
    IF ptr < 0 \/ ptr > MEMORY_SIZE THEN Ret(v, "Panic", 0)
    ELSE Ret([v EXCEPT !.program_counter = ptr], "Advanced", 0)

\* branch: try_into::<usize>().unwrap() and the bounds check both panic
branch(v, ptr) ==
    IF ptr < 0 \/ ptr >= MEMORY_SIZE THEN Ret(v, "Panic", 0)
    ELSE Ret([v EXCEPT !.program_counter = ptr], "Advanced", 0)

\* self.program_counter += 1; VirtualMachineStep::Advanced
advance(v) == Ret([v EXCEPT !.program_counter = @ + 1], "Advanced", 0)

\* step, the arms that read a cell through ptr_get and combine it with the accumulator;
\* "LDR" is the body of the arm `LDR =>`
load_arm(v, op, addr) ==
    Bind(ptr_get(v, addr), LAMBDA g :
        IF g.res # "Ok" THEN Ret(g.vm, g.res, 0)
        ELSE advance([g.vm EXCEPT !.accumulator =
                CASE op = "ADD" -> @ + g.out
                  [] op = "SUB" -> @ - g.out
                  [] op = "LDA" -> g.out
                  [] op = "BWA" -> BitAnd(@, g.out)
                  [] op = "BWO" -> BitOr(@, g.out)
                  [] op = "BWX" -> BitXor(@, g.out)
                  [] op = "LDR" -> g.out]))

\* step, STA arm
sta_arm(v, addr) ==
    Bind(ptr_write(v, addr, v.accumulator), LAMBDA w :
        IF w.res # "Ok" THEN w ELSE advance(w.vm))

\* step, the match on the decoded instruction. Instruction has no variant LDR, so the
\* arm `LDR =>` is a binding that takes every instruction the arms before it leave: INP,
\* OUT and HLT run its body, the cell the accumulator addresses is loaded into the
\* accumulator. The arms INP, OUT, HLT and DAT that come after it are never taken.
execute(v, d) ==
    CASE d.op \in {"ADD", "SUB", "LDA", "BWA", "BWO", "BWX"} -> load_arm(v, d.op, d.data)
      [] d.op = "STA" -> sta_arm(v, d.data)
      [] d.op = "BRA" -> branch(v, d.data)
      [] d.op = "BRZ" -> IF v.accumulator = 0 THEN branch(v, d.data) ELSE advance(v)
      [] d.op = "BRP" -> IF v.accumulator >= 0 THEN branch(v, d.data) ELSE advance(v)
      [] d.op = "BWN" -> advance([v EXCEPT !.accumulator = BitNot(@)])
      [] OTHER -> load_arm(v, "LDR", v.accumulator)

\* Decode failure that halts the VM instead of skipping the cell.
skip_undecodable_halts(v) == Ret([v EXCEPT !.halted = TRUE], "Halted", 0)

\* Decode failure that gives the cycle back: the skipped cell is not counted.
skip_undecodable_uncounted(v) == advance([v EXCEPT !.cycles = @ - 1])

\* step, the let-else on the decode: skip the undecodable cell
skip_undecodable(v) == advance(v)

\* The cycle with a program counter that wraps to 0 at the end of memory.
run_cycle_wraps(v) ==
    Bind([v EXCEPT !.cycles = @ + 1], LAMBDA v1 :
        IF v1.program_counter >= MEMORY_SIZE
        THEN Ret([v1 EXCEPT !.program_counter = 0], "Advanced", 0)
        ELSE Bind(decode(v1.memory[v1.program_counter]), LAMBDA d :
                 IF d.op = "Err" THEN skip_undecodable(v1) ELSE execute(v1, d)))

\* step, after the halted check: count the cycle, halt at the end of memory,
\* fetch, decode, execute
run_cycle(v) ==
    Bind([v EXCEPT !.cycles = @ + 1], LAMBDA v1 :
        IF v1.program_counter >= MEMORY_SIZE
        THEN Ret([v1 EXCEPT !.halted = TRUE], "Halted", 0)
        ELSE Bind(decode(v1.memory[v1.program_counter]), LAMBDA d :
                 IF d.op = "Err" THEN skip_undecodable(v1) ELSE execute(v1, d)))

\* step that counts the cycle before it looks at the halted flag.
step_counts_first(v) ==
    IF v.halted THEN Ret([v EXCEPT !.cycles = @ + 1], "Halted", 0)
    ELSE run_cycle(v)

\* step
step(v) ==
    IF v.halted THEN Ret(v, "Halted", 0)
    ELSE run_cycle(v)

\* input
input(v, value) == [v EXCEPT !.input_buffer = Some(value)]

\* compile, first pass: write(counter, data) for every DAT instruction, counter
\* being its 0-based index; write panics at the first index out of bounds
first_pass(v, compiled) ==
    Bind(v, LAMBDA v0 :
        IF \E c \in 0..(Len(compiled) - 1) :
               compiled[c + 1].op = "DAT" /\ write(v0, c, 0).res # "Ok"
        THEN Ret(v0, "Panic", 0)
        ELSE Ret([v0 EXCEPT !.memory =
                     [a \in 0..(MEMORY_SIZE - 1) |->
                         IF a < Len(compiled) /\ compiled[a + 1].op = "DAT"
                         THEN compiled[a + 1].data ELSE v0.memory[a]]], "Ok", 0))

\* compile, second pass that leaves the DAT lines to the first pass.
second_pass_skips_dat(v, compiled) ==
    Bind(v, LAMBDA v0 :
        IF \E c \in 0..(Len(compiled) - 1) : write(v0, c, 0).res # "Ok"
        THEN Ret(v0, "Panic", 0)
        ELSE Ret([v0 EXCEPT !.memory =
                     [a \in 0..(MEMORY_SIZE - 1) |->
                         IF a < Len(compiled) /\ compiled[a + 1].op # "DAT"
                         THEN encode(compiled[a + 1]) ELSE v0.memory[a]]], "Ok", 0))

\* compile, second pass: write(counter, instr.into()) for every instruction
second_pass(v, compiled) ==
    Bind(v, LAMBDA v0 :
        IF \E c \in 0..(Len(compiled) - 1) : write(v0, c, 0).res # "Ok"
        THEN Ret(v0, "Panic", 0)
        ELSE Ret([v0 EXCEPT !.memory =
                     [a \in 0..(MEMORY_SIZE - 1) |->
                         IF a < Len(compiled)
                         THEN encode(compiled[a + 1]) ELSE v0.memory[a]]], "Ok", 0))

\* Loading that clears the registers of a VM that is still running.
load_clears_running(v, compiled) ==
    Bind(first_pass(reset_always(v), compiled), LAMBDA p1 :
        IF p1.res # "Ok" THEN p1
        ELSE Bind(second_pass(p1.vm, compiled), LAMBDA p2 :
                 IF p2.res # "Ok" THEN p2
                 ELSE Ret([p2.vm EXCEPT !.halted = FALSE], "Ok", 0)))

\* compile, from the reset on, without the first pass: clear, write every instruction,
\* clear the halted flag
load_second_pass_only(v, compiled) ==
    Bind(second_pass(reset(v), compiled), LAMBDA p2 :
        IF p2.res # "Ok" THEN p2
        ELSE Ret([p2.vm EXCEPT !.halted = FALSE], "Ok", 0))

\* compile without the first pass
compile_second_pass_only(v, program) ==
    Bind(assemble(trim(program)), LAMBDA a :
        CASE a.res = "Panic" -> Ret(v, "Panic", 0)
          [] a.res = "Err" -> Ret(v, "CompilerError", 0)
          [] Len(a.prog) > MEMORY_SIZE -> Ret(v, "MemoryFull", 0)
          [] OTHER -> load_second_pass_only(v, a.prog))

\* compile, from the reset on: clear, load in two passes, clear the halted flag
load(v, compiled) ==
    Bind(first_pass(reset(v), compiled), LAMBDA p1 :
        IF p1.res # "Ok" THEN p1
        ELSE Bind(second_pass(p1.vm, compiled), LAMBDA p2 :
                 IF p2.res # "Ok" THEN p2
                 ELSE Ret([p2.vm EXCEPT !.halted = FALSE], "Ok", 0)))

\* compile that resets the VM before it has checked the program.
compile_resets_first(v, program) ==
    Bind(assemble(trim(program)), LAMBDA a :
        CASE a.res = "Panic" -> Ret(v, "Panic", 0)
          [] a.res = "Err" -> Ret(reset(v), "CompilerError", 0)
          [] Len(a.prog) > MEMORY_SIZE -> Ret(reset(v), "MemoryFull", 0)
          [] OTHER -> load(v, a.prog))

\* compile
compile(v, program) ==
    Bind(assemble(trim(program)), LAMBDA a :
        CASE a.res = "Panic" -> Ret(v, "Panic", 0)
          [] a.res = "Err" -> Ret(v, "CompilerError", 0)
          [] Len(a.prog) > MEMORY_SIZE -> Ret(v, "MemoryFull", 0)
          [] OTHER -> load(v, a.prog))

(***************************************************************************)
(* The source texts given to compile() and assemble()                      *)
(***************************************************************************)
\* The mnemonic of an instruction, as text
MnemonicText(op) ==
    CASE op = "ADD" -> <<"A","D","D">> [] op = "SUB" -> <<"S","U","B">>
      [] op = "STA" -> <<"S","T","A">> [] op = "LDA" -> <<"L","D","A">>
      [] op = "BRA" -> <<"B","R","A">> [] op = "BRZ" -> <<"B","R","Z">>
      [] op = "BRP" -> <<"B","R","P">> [] op = "BWA" -> <<"B","W","A">>
      [] op = "BWO" -> <<"B","W","O">> [] op = "BWX" -> <<"B","W","X">>
      [] op = "INP" -> <<"I","N","P">> [] op = "OUT" -> <<"O","U","T">>
      [] op = "HLT" -> <<"H","L","T">> [] op = "DAT" -> <<"D","A","T">>
      [] op = "LDR" -> <<"L","D","R">> [] op = "BWN" -> <<"B","W","N">>

\* The program of parser.rs test_parse (after indoc): a countdown from the input
SrcTestParse ==
    <<<<" "," "," "," ","I","N","P">>,
      <<"l","o","o","p"," ","O","U","T">>,
      <<" "," "," "," ","S","T","A"," ","c","o","u","n","t">>,
      <<" "," "," "," ","S","U","B"," ","o","n","e">>,
      <<" "," "," "," ","S","T","A"," ","c","o","u","n","t">>,
      <<" "," "," "," ","B","R","P"," ","l","o","o","p">>,
      <<" "," "," "," ","H","L","T">>,
      <<>>,
      <<"o","n","e"," "," "," "," "," ","D","A","T"," ","1">>,
      <<"c","o","u","n","t"," "," "," ","D","A","T">>,
      <<>>>>

\* Two INP in a row
SrcTwoInp == <<<<"I","N","P">>, <<"I","N","P">>, <<"O","U","T">>, <<"H","L","T">>>>

\* A label in capitals: the grammar takes no all-uppercase label
SrcUpperLabel == <<<<"O","N","E"," ","D","A","T"," ","1">>>>

\* Empty lines before, between and after the instruction lines, indents of tabs and
\* spaces, a label after an indent, whitespace at the end of a line, a DAT without
\* operand: [0] LDA b, [1] a DAT 3, [2] b DAT, [3] STA a
SrcBlankLines ==
    <<<<>>,
      <<"\t","\t","L","D","A"," ","b">>,
      <<>>,
      <<>>,
      <<"a"," "," ","\t"," ","D","A","T"," ","3"," "," ">>,
      <<" "," ","b"," ","D","A","T">>,
      <<" "," "," "," ","S","T","A"," ","a"," ","\t">>,
      <<>>>>

\* The operand-less LDR the grammar takes, and a HLT
SrcLdr == <<<<"L","D","R">>, <<"H","L","T">>>>

\* n lines "OUT"
SrcOutLines(n) == [k \in 1..n |-> <<"O","U","T">>]

\* The operand forms: a number, a label, a pointer
OperandText(form) ==
    CASE form = "number" -> <<"1">>
      [] form = "label" -> <<"x">>
      [] form = "pointer" -> <<"@","x">>

\* "HLT", a line with the operand, and the line "x DAT 5" if defined: without it the
\* operand names a label no line defines
SrcOperand(op, form, defined) ==
    <<<<"H","L","T">>, MnemonicText(op) \o <<" ">> \o OperandText(form)>>
    \o (IF defined THEN <<<<"x"," ","D","A","T"," ","5">>>> ELSE <<>>)

OperandIds ==
    {<<"operand", op, form, d>> :
        op \in OperandOps, form \in {"number", "label", "pointer"}, d \in {"defined", "undefined"}}

\* The sources whose operand names a label that no line defines
UnknownLabelIds == {id \in OperandIds : id[3] # "number" /\ id[4] = "undefined"}

\* The sources given to assemble()
AsmSourceIds ==
    {<<"test_parse">>, <<"two_inp">>, <<"upper_label">>, <<"full">>, <<"over">>,
     <<"blank_lines">>, <<"ldr">>}
    \cup OperandIds

\* The sources given to compile()
SourceIds ==
    {<<"test_parse">>, <<"two_inp">>, <<"upper_label">>, <<"full">>, <<"over">>,
     <<"run_off">>,
     <<"operand", "ADD", "label", "undefined">>,
     <<"operand", "LDA", "pointer", "undefined">>}

(***************************************************************************)
(* Programs for the host to run. A line is built from its label, mnemonic  *)
(* and operand; the addresses in brackets are the 0-based line indexes.    *)
(***************************************************************************)
DigitText(d) ==
    CASE d = 0 -> "0" [] d = 1 -> "1" [] d = 2 -> "2" [] d = 3 -> "3" [] d = 4 -> "4"
      [] d = 5 -> "5" [] d = 6 -> "6" [] d = 7 -> "7" [] d = 8 -> "8" [] d = 9 -> "9"

\* A non-negative number in decimal
RECURSIVE NumText(_)
NumText(n) ==
    IF n < 10 THEN <<DigitText(n)>> ELSE NumText(n \div 10) \o <<DigitText(n % 10)>>

\* "@" and the label
At(lab) == <<"@">> \o lab

\* A line: the label and a space, or an indent; the mnemonic; a space and the operand
Line(lab, op, operand) ==
    (IF lab = <<>> THEN <<" "," "," "," ">> ELSE lab \o <<" ">>)
    \o MnemonicText(op)
    \o (IF operand = <<>> THEN <<>> ELSE <<" ">> \o operand)

\* The instructions whose own operand is resolved through ptr_get / ptr_write (the
\* binding arm `LDR =>` resolves the accumulator instead)
MemOps == {"ADD", "SUB", "STA", "LDA", "BWA", "BWO", "BWX"}
BranchOps == {"BRA", "BRZ", "BRP"}

\* The addresses of the cells q, r and v (the end of every chain) in SrcChain
ChainAddr(lab) == CASE lab = "q" -> 7 [] lab = "r" -> 8 [] lab = "v" -> 9

\* The depth of a chain, from its text
ChainDepth(k) == DigitVal(k)

\* The address of the label p in SrcChain
ChainStart(place) ==
    CASE place = "first" -> 0
      [] place = "later" -> 6
      [] place = "last" -> MEMORY_SIZE - 1

\* The cells of the chain: p leads to v in k lookups, through q and r
ChainCells(k) ==
    <<Line(<<"q">>, "DAT", NumText(IF ChainDepth(k) = 2 THEN ChainAddr("v")
                                    ELSE MEMORY_SIZE + ChainAddr("r"))),
      Line(<<"r">>, "DAT", NumText(ChainAddr("v"))),
      Line(<<"v">>, "DAT", <<"6">>),
      Line(<<"w">>, "DAT", <<"3">>)>>

ChainHead(k) ==
    Line(<<"p">>, "DAT", NumText(IF ChainDepth(k) = 1 THEN ChainAddr("v")
                                  ELSE MEMORY_SIZE + ChainAddr("q")))

\* The accumulator is loaded with 3 from w, op @p runs on it, and an OUT, a load of
\* the cell v, an OUT and a HLT follow. The label p is on the first line (address 0), after the
\* code (address 6) or on the last line that fits (address MEMORY_SIZE - 1).
SrcChain(op, k, place) ==
    (IF place = "first" THEN <<ChainHead(k)>> ELSE <<>>)
    \o <<Line(<<>>, "LDA", <<"w">>),
         Line(<<>>, op, At(<<"p">>)),
         Line(<<>>, "OUT", <<>>),
         Line(<<>>, "LDA", <<"v">>),
         Line(<<>>, "OUT", <<>>),
         Line(<<>>, "HLT", <<>>)>>
    \o (IF place = "later" THEN <<ChainHead(k)>> ELSE <<>>)
    \o (IF place = "last" THEN <<Line(<<>>, "DAT", <<>>)>> ELSE <<>>)
    \o ChainCells(k)
    \o (IF place = "last"
        THEN [i \in 1..(MEMORY_SIZE - 12) |-> Line(<<>>, "DAT", <<>>)] \o <<ChainHead(k)>>
        ELSE <<>>)

ChainIds ==
    {<<"chain", op, k, place>> :
        op \in MemOps, k \in {"1", "2", "3"}, place \in {"first", "later"}}
    \cup {<<"chain", "LDA", "1", "last">>, <<"chain", "STA", "2", "last">>}

\* The branch target, as written
TargetText(target) ==
    CASE target = "inside" -> <<"2">>
      [] target = "edge" -> NumText(MEMORY_SIZE)
      [] target = "beyond" -> NumText(MEMORY_SIZE + 50)
      [] target = "pointer" -> At(<<"x">>)

\* A branch taken on the new VM's accumulator 0: [0] op target, [1] HLT, [2] x OUT,
\* [3] HLT
SrcBranch(op, target) ==
    <<Line(<<>>, op, TargetText(target)),
      Line(<<>>, "HLT", <<>>),
      Line(<<"x">>, "OUT", <<>>),
      Line(<<>>, "HLT", <<>>)>>

BranchIds ==
    {<<"branch", op, target>> :
        op \in BranchOps, target \in {"inside", "edge", "beyond", "pointer"}}

\* A conditional branch on an accumulator of -1, 0 or 1, to the label t at address 5
\* or to an address outside memory: [0] LDA zero, [1] SUB one / SUB zero / ADD one,
\* [2] op target, [3] OUT, [4] HLT, [5] t OUT, [6] HLT, [7] one DAT 1, [8] zero DAT
SrcCond(op, sign, target) ==
    <<Line(<<>>, "LDA", <<"z","e","r","o">>),
      CASE sign = "negative" -> Line(<<>>, "SUB", <<"o","n","e">>)
        [] sign = "zero" -> Line(<<>>, "SUB", <<"z","e","r","o">>)
        [] sign = "positive" -> Line(<<>>, "ADD", <<"o","n","e">>),
      Line(<<>>, op, IF target = "label" THEN <<"t">> ELSE TargetText(target)),
      Line(<<>>, "OUT", <<>>),
      Line(<<>>, "HLT", <<>>),
      Line(<<"t">>, "OUT", <<>>),
      Line(<<>>, "HLT", <<>>),
      Line(<<"o","n","e">>, "DAT", <<"1">>),
      Line(<<"z","e","r","o">>, "DAT", <<>>)>>

CondIds ==
    {<<"cond", op, sign, target>> :
        op \in {"BRZ", "BRP"}, sign \in {"negative", "zero", "positive"},
        target \in {"label", "beyond"}}

\* The operand of the data access, as written
DataOperandText(case) ==
    CASE case = "operand_edge" -> NumText(MEMORY_SIZE)
      [] case = "operand_beyond" -> NumText(2 * MEMORY_SIZE)
      [] case = "cell_negative" -> At(<<"n">>)
      [] case = "cell_edge" -> At(<<"e">>)
      [] case = "cell_beyond" -> At(<<"b">>)

\* A data access whose operand, or a cell it reaches, is no address: [0] LDA zero,
\* [1] SUB one, [2] STA n (n becomes -1), [3] LDA w, [4] op operand, [5] HLT, [6] n DAT,
\* [7] e DAT MEMORY_SIZE, [8] b DAT 2*MEMORY_SIZE, [9] one DAT 1, [10] zero DAT,
\* [11] w DAT 3
SrcData(op, case) ==
    <<Line(<<>>, "LDA", <<"z","e","r","o">>),
      Line(<<>>, "SUB", <<"o","n","e">>),
      Line(<<>>, "STA", <<"n">>),
      Line(<<>>, "LDA", <<"w">>),
      Line(<<>>, op, DataOperandText(case)),
      Line(<<>>, "HLT", <<>>),
      Line(<<"n">>, "DAT", <<>>),
      Line(<<"e">>, "DAT", NumText(MEMORY_SIZE)),
      Line(<<"b">>, "DAT", NumText(2 * MEMORY_SIZE)),
      Line(<<"o","n","e">>, "DAT", <<"1">>),
      Line(<<"z","e","r","o">>, "DAT", <<>>),
      Line(<<"w">>, "DAT", <<"3">>)>>

DataIds ==
    {<<"data", op, case>> :
        op \in MemOps,
        case \in {"operand_edge", "operand_beyond", "cell_negative", "cell_edge",
                  "cell_beyond"}}

\* A chain that comes back to itself: [0] op @p, [1] HLT, [2] p DAT, [3] q DAT. The
\* cell p holds the marker of itself, or p and q hold the marker of each other.
SrcCycle(op, shape) ==
    <<Line(<<>>, op, At(<<"p">>)),
      Line(<<>>, "HLT", <<>>),
      Line(<<"p">>, "DAT", NumText(IF shape = "self" THEN MEMORY_SIZE + 2
                                   ELSE MEMORY_SIZE + 3)),
      Line(<<"q">>, "DAT", NumText(MEMORY_SIZE + 2))>>

CycleIds == {<<"cycle", op, shape>> : op \in MemOps, shape \in {"self", "pair"}}

\* A branch to the last cell, which is empty: the program counter runs off the end
SrcRunOff == <<Line(<<>>, "BRA", NumText(MEMORY_SIZE - 1))>>

\* A DAT line where execution starts: [0] DAT value (no operand for "0"), [1] OUT,
\* [2] HLT, [3] y DAT 7. The value 1 is the cell of HLT, 1003 the cell of ADD 3, 0 no
\* instruction.
SrcDat(value) ==
    <<Line(<<"x">>, "DAT", IF value = <<"0">> THEN <<>> ELSE value),
      Line(<<>>, "OUT", <<>>),
      Line(<<>>, "HLT", <<>>),
      Line(<<"y">>, "DAT", <<"7">>)>>

DatIds == {<<"dat", "1">>, <<"dat", "1003">>, <<"dat", "0">>}

\* An INP after other instructions: [0] LDA seven, [1] OUT, [2] INP, [3] OUT, [4] HLT,
\* [5] seven DAT 7
SrcLateInp ==
    <<Line(<<>>, "LDA", <<"s","e","v","e","n">>),
      Line(<<>>, "OUT", <<>>),
      Line(<<>>, "INP", <<>>),
      Line(<<>>, "OUT", <<>>),
      Line(<<>>, "HLT", <<>>),
      Line(<<"s","e","v","e","n">>, "DAT", <<"7">>)>>

\* The sources compiled on a VM that is given its input ahead of the INP
EarlySourceIds == {<<"late_inp">>, <<"two_inp">>}

\* main.rs PROGRAM: the bubble sort of ten values through @pos and @next
PROGRAM ==
    <<<<>>,
      <<" "," "," "," ","i","n","i","t"," "," "," ","L","D","A"," ","v","0">>,
      <<" "," "," "," "," "," "," ","S","T","A"," ","9","0">>,
      <<" "," "," "," "," "," "," ","L","D","A"," ","v","1">>,
      <<" "," "," "," "," "," "," ","S","T","A"," ","9","1">>,
      <<" "," "," "," "," "," "," ","L","D","A"," ","v","2">>,
      <<" "," "," "," "," "," "," ","S","T","A"," ","9","2">>,
      <<" "," "," "," "," "," "," ","L","D","A"," ","v","3">>,
      <<" "," "," "," "," "," "," ","S","T","A"," ","9","3">>,
      <<" "," "," "," "," "," "," ","L","D","A"," ","v","4">>,
      <<" "," "," "," "," "," "," ","S","T","A"," ","9","4">>,
      <<" "," "," "," "," "," "," ","L","D","A"," ","v","5">>,
      <<" "," "," "," "," "," "," ","S","T","A"," ","9","5">>,
      <<" "," "," "," "," "," "," ","L","D","A"," ","v","6">>,
      <<" "," "," "," "," "," "," ","S","T","A"," ","9","6">>,
      <<" "," "," "," "," "," "," ","L","D","A"," ","v","7">>,
      <<" "," "," "," "," "," "," ","S","T","A"," ","9","7">>,
      <<" "," "," "," "," "," "," ","L","D","A"," ","v","8">>,
      <<" "," "," "," "," "," "," ","S","T","A"," ","9","8">>,
      <<" "," "," "," "," "," "," ","L","D","A"," ","v","9">>,
      <<" "," "," "," "," "," "," ","S","T","A"," ","9","9">>,
      <<"l","o","o","p"," "," "," ","L","D","A"," ","t","r","u","e">>,
      <<" "," "," "," "," "," "," ","S","T","A"," ","s","o","r","t","e","d">>,
      <<" "," "," "," "," "," "," ","L","D","A"," ","f","i","r","s","t">>,
      <<" "," "," "," "," "," "," ","S","T","A"," ","p","o","s">>,
      <<" "," "," "," "," "," "," ","A","D","D"," ","o","n","e">>,
      <<" "," "," "," "," "," "," ","S","T","A"," ","n","e","x","t">>,
      <<"s","t","e","p"," "," "," ","L","D","A"," ","@","p","o","s">>,
      <<" "," "," "," "," "," "," ","S","U","B"," ","@","n","e","x","t">>,
      <<" "," "," "," "," "," "," ","B","R","Z"," ","p","a","s","s">>,
      <<" "," "," "," "," "," "," ","B","R","P"," ","s","w","a","p">>,
      <<"p","a","s","s"," "," "," ","L","D","A"," ","p","o","s">>,
      <<" "," "," "," "," "," "," ","A","D","D"," ","o","n","e">>,
      <<" "," "," "," "," "," "," ","S","T","A"," ","p","o","s">>,
      <<" "," "," "," "," "," "," ","L","D","A"," ","n","e","x","t">>,
      <<" "," "," "," "," "," "," ","A","D","D"," ","o","n","e">>,
      <<" "," "," "," "," "," "," ","S","T","A"," ","n","e","x","t">>,
      <<" "," "," "," "," "," "," ","L","D","A"," ","p","o","s">>,
      <<" "," "," "," "," "," "," ","S","U","B"," ","l","a","s","t">>,
      <<" "," "," "," "," "," "," ","B","R","Z"," ","r","e","p","e","a","t">>,
      <<" "," "," "," "," "," "," ","B","R","A"," ","s","t","e","p">>,
      <<"s","w","a","p"," "," "," ","L","D","A"," ","@","n","e","x","t">>,
      <<" "," "," "," "," "," "," ","S","T","A"," ","t","e","m","p">>,
      <<" "," "," "," "," "," "," ","L","D","A"," ","@","p","o","s">>,
      <<" "," "," "," "," "," "," ","S","T","A"," ","@","n","e","x","t">>,
      <<" "," "," "," "," "," "," ","L","D","A"," ","t","e","m","p">>,
      <<" "," "," "," "," "," "," ","S","T","A"," ","@","p","o","s">>,
      <<" "," "," "," "," "," "," ","L","D","A"," ","f","a","l","s","e">>,
      <<" "," "," "," "," "," "," ","S","T","A"," ","s","o","r","t","e","d">>,
      <<" "," "," "," "," "," "," ","B","R","A"," ","p","a","s","s">>,
      <<"r","e","p","e","a","t"," ","L","D","A"," ","s","o","r","t","e","d">>,
      <<" "," "," "," "," "," "," ","S","U","B"," ","t","r","u","e">>,
      <<" "," "," "," "," "," "," ","B","R","Z"," ","e","x","i","t">>,
      <<" "," "," "," "," "," "," ","B","R","A"," ","l","o","o","p">>,
      <<"e","x","i","t"," "," "," ","L","D","A"," ","f","i","r","s","t">>,
      <<" "," "," "," "," "," "," ","S","T","A"," ","p","o","s">>,
      <<"o","u","t","s"," "," "," ","L","D","A"," ","@","p","o","s">>,
      <<" "," "," "," "," "," "," ","O","U","T">>,
      <<" "," "," "," "," "," "," ","L","D","A"," ","p","o","s">>,
      <<" "," "," "," "," "," "," ","A","D","D"," ","o","n","e">>,
      <<" "," "," "," "," "," "," ","S","T","A"," ","p","o","s">>,
      <<" "," "," "," "," "," "," ","L","D","A"," ","l","a","s","t">>,
      <<" "," "," "," "," "," "," ","S","U","B"," ","p","o","s">>,
      <<" "," "," "," "," "," "," ","B","R","P"," ","o","u","t","s">>,
      <<" "," "," "," "," "," "," ","H","L","T">>,
      <<"p","o","s"," "," "," "," ","D","A","T">>,
      <<"n","e","x","t"," "," "," ","D","A","T">>,
      <<"t","e","m","p"," "," "," ","D","A","T">>,
      <<"s","o","r","t","e","d"," ","D","A","T"," ","0">>,
      <<"t","r","u","e"," "," "," ","D","A","T"," ","1">>,
      <<"f","a","l","s","e"," "," ","D","A","T"," ","0">>,
      <<"o","n","e"," "," "," "," ","D","A","T"," ","1">>,
      <<"f","i","r","s","t"," "," ","D","A","T"," ","9","0">>,
      <<"l","a","s","t"," "," "," ","D","A","T"," ","9","9">>,
      <<"v","0"," "," "," "," "," ","D","A","T"," ","3","2">>,
      <<"v","1"," "," "," "," "," ","D","A","T"," ","7">>,
      <<"v","2"," "," "," "," "," ","D","A","T"," ","1","9">>,
      <<"v","3"," "," "," "," "," ","D","A","T"," ","7","5">>,
      <<"v","4"," "," "," "," "," ","D","A","T"," ","2","1">>,
      <<"v","5"," "," "," "," "," ","D","A","T"," ","1","4">>,
      <<"v","6"," "," "," "," "," ","D","A","T"," ","9","5">>,
      <<"v","7"," "," "," "," "," ","D","A","T"," ","3","5">>,
      <<"v","8"," "," "," "," "," ","D","A","T"," ","6","1">>,
      <<"v","9"," "," "," "," "," ","D","A","T"," ","5","0">>>>

\* The programs the host runs
RunSourceIds ==
    {<<"test_parse">>, <<"two_inp">>, <<"run_off">>}
    \cup ChainIds \cup BranchIds \cup CondIds \cup DataIds \cup CycleIds \cup DatIds

SourceText(id) ==
    CASE id = <<"test_parse">> -> SrcTestParse
      [] id = <<"two_inp">> -> SrcTwoInp
      [] id = <<"upper_label">> -> SrcUpperLabel
      [] id = <<"blank_lines">> -> SrcBlankLines
      [] id = <<"full">> -> SrcOutLines(MEMORY_SIZE)
      [] id = <<"over">> -> SrcOutLines(MEMORY_SIZE + 1)
      [] id = <<"run_off">> -> SrcRunOff
      [] id = <<"ldr">> -> SrcLdr
      [] id = <<"late_inp">> -> SrcLateInp
      [] id = <<"sort">> -> PROGRAM
      [] id \in OperandIds -> SrcOperand(id[2], id[3], id[4] = "defined")
      [] id \in ChainIds -> SrcChain(id[2], id[3], id[4])
      [] id \in BranchIds -> SrcBranch(id[2], id[3])
      [] id \in CondIds -> SrcCond(id[2], id[3], id[4])
      [] id \in DataIds -> SrcData(id[2], id[3])
      [] id \in CycleIds -> SrcCycle(id[2], id[3])
      [] id \in DatIds -> SrcDat(IF id[2] = "1003" THEN NumText(1003) ELSE <<id[2]>>)

(***************************************************************************)
(* The state machine: one action per public operation of VirtualMachine    *)
(***************************************************************************)
\* A call on the VM: the operation, its argument (src for compile, val for input),
\* what it returned (out is Output's payload) and, for step, what it fetched
Call(op, src, val, res, out, ins) ==
    [op |-> op, src |-> src, val |-> val, res |-> res, out |-> out, ins |-> ins]

\* What step() is about to fetch: the variant the cell at the program counter
\* decodes to, "Err" if it does not decode; "halted" and "end" if step() returns
\* before the fetch
Fetched ==
    IF halted THEN "halted"
    ELSE IF program_counter >= MEMORY_SIZE THEN "end"
    ELSE decode(memory[program_counter]).op

CodecIdle ==
    /\ instr = Ins("HLT", 0)
    /\ cell = 0
    /\ decoded = DecodeErr
    /\ stage = "idle"

AsmIdle ==
    /\ asm_input = <<>>
    /\ asm_result = <<>>

VmNew ==
    /\ program_counter = new.program_counter
    /\ accumulator = new.accumulator
    /\ memory = new.memory
    /\ halted = new.halted
    /\ input_buffer = new.input_buffer
    /\ cycles = new.cycles
    /\ accessing = new.accessing
    /\ call = Call("new", <<>>, 0, "Ok", 0, "")
    /\ prev = Call("none", <<>>, 0, "Ok", 0, "")
    /\ compiles = 0

\* TerminalInterface::new: no input yet, the VM off, no popup and no modal up, the
\* loop of run() about to start
HostNew ==
    /\ inputs = <<>>
    /\ vm_on = FALSE
    /\ current_popup = <<>>
    /\ current_modal = <<>>
    /\ should_exit = FALSE
    /\ loop_at = "event"

\* The host has no program and has shown no output
HostIdle ==
    /\ program_textarea = <<>>
    /\ outputs = <<>>
    /\ HostNew

Init == VmNew /\ CodecIdle /\ AsmIdle /\ HostIdle

\* The VM fields after a call
Becomes(v) ==
    /\ program_counter' = v.program_counter
    /\ accumulator' = v.accumulator
    /\ memory' = v.memory
    /\ halted' = v.halted
    /\ input_buffer' = v.input_buffer
    /\ cycles' = v.cycles
    /\ accessing' = v.accessing

\* The call c is recorded
Record(c) == call' = c /\ prev' = call

\* The process is running: no call has panicked or failed to return
Alive == call.res \notin {"Panic", "Diverge"}

Compile ==
    /\ Alive
    /\ compiles < MaxCompiles
    /\ \E id \in SourceIds :
        \E r \in {compile(VM, SourceText(id))} :
            /\ Becomes(r.vm)
            /\ Record(Call("compile", id, 0, r.res, 0, ""))
    /\ compiles' = compiles + 1
    /\ UNCHANGED <<codecvars, asmvars, hostvars>>

Reset ==
    /\ Alive
    /\ \E v \in {reset(VM)} : Becomes(v)
    /\ Record(Call("reset", <<>>, 0, "Ok", 0, ""))
    /\ UNCHANGED <<compiles, codecvars, asmvars, hostvars>>

Step ==
    /\ Alive
    /\ halted \/ cycles < MaxCycles
    /\ \E r \in {step(VM)} :
        /\ Becomes(r.vm)
        /\ Record(Call("step", <<>>, 0, r.res, r.out, Fetched))
    /\ UNCHANGED <<compiles, codecvars, asmvars, hostvars>>

Input ==
    /\ Alive
    /\ \E value \in InputValues :
        /\ \E v \in {input(VM, value)} : Becomes(v)
        /\ Record(Call("input", <<>>, value, "Ok", 0, ""))
    /\ UNCHANGED <<compiles, codecvars, asmvars, hostvars>>

Next == Compile \/ Reset \/ Step \/ Input

Spec == Init /\ [][Next]_vars

(***************************************************************************)
(* A VM that is created and never given a program: step(), reset() and     *)
(* input() in any order. Its caller keeps calling step().                  *)
(***************************************************************************)
StepNew ==
    /\ Alive
    /\ \E r \in {step(VM)} :
        /\ Becomes(r.vm)
        /\ Record(Call("step", <<>>, 0, r.res, r.out, Fetched))
    /\ UNCHANGED <<compiles, codecvars, asmvars, hostvars>>

NextFresh == StepNew \/ Reset \/ Input

SpecFresh == Init /\ [][NextFresh]_vars /\ WF_vars(StepNew)

(***************************************************************************)
(* A VM whose caller supplies input at any time, also before the program   *)
(* comes to an INP                                                         *)
(***************************************************************************)
CompileEarly ==
    /\ Alive
    /\ compiles < MaxCompiles
    /\ \E id \in EarlySourceIds :
        \E r \in {compile(VM, SourceText(id))} :
            /\ Becomes(r.vm)
            /\ Record(Call("compile", id, 0, r.res, 0, ""))
    /\ compiles' = compiles + 1
    /\ UNCHANGED <<codecvars, asmvars, hostvars>>

NextEarly == CompileEarly \/ Reset \/ Step \/ Input

SpecEarly == Init /\ [][NextEarly]_vars

(***************************************************************************)
(* The codec alone: encode a legal instruction and decode the result, or   *)
(* decode a raw cell value                                                 *)
(***************************************************************************)
\* The width of an operand band: 1000..=1999 and the like
BandWidth == 1000

\* The legal instructions: every operand of the band for the ten variants that carry
\* one, and the four fixed opcodes
LegalInstructions ==
    {Ins(op, data) : op \in OperandOps, data \in 0..(BandWidth - 1)}
    \cup {Ins(op, 0) : op \in FixedOps}

RawCells == (0 - MaxProbe)..(13999 + MaxProbe)

InitCodec ==
    /\ VmNew
    /\ AsmIdle
    /\ HostIdle
    /\ decoded = DecodeErr
    /\ \/ stage = "instr" /\ instr \in LegalInstructions /\ cell = 0
       \/ stage = "raw" /\ instr = Ins("HLT", 0) /\ cell \in RawCells

Encode ==
    /\ stage = "instr"
    /\ cell' = encode(instr)
    /\ stage' = "encoded"
    /\ UNCHANGED <<vmvars, call, prev, compiles, instr, decoded, asmvars, hostvars>>

Decode ==
    /\ stage \in {"encoded", "raw"}
    /\ decoded' = decode(cell)
    /\ stage' = IF stage = "encoded" THEN "roundtrip" ELSE "probed"
    /\ UNCHANGED <<vmvars, call, prev, compiles, instr, cell, asmvars, hostvars>>

NextCodec == Encode \/ Decode

SpecCodec == InitCodec /\ [][NextCodec]_vars

(***************************************************************************)
(* The assembler alone: assemble() on a source text, then compile() of the *)
(* same text on a new VM                                                   *)
(***************************************************************************)
InitAsm ==
    /\ VmNew
    /\ CodecIdle
    /\ HostIdle
    /\ asm_input \in AsmSourceIds
    /\ asm_result = <<>>

\* assemble(source), called at most MaxAssembles times on the same source: the value
\* returned is appended to asm_result. No call follows one that panicked.
Assemble ==
    /\ Len(asm_result) < MaxAssembles
    /\ asm_result # <<>> => asm_result[Len(asm_result)].res # "Panic"
    /\ asm_result' = Append(asm_result, assemble(SourceText(asm_input)))
    /\ UNCHANGED <<vmvars, call, prev, compiles, codecvars, asm_input, hostvars>>

\* compile(source) on the VM, once assemble has returned
CompileAssembled ==
    /\ asm_result # <<>>
    /\ asm_result[1].res # "Panic"
    /\ call.op = "new"
    /\ \E r \in {compile(VM, SourceText(asm_input))} :
        /\ Becomes(r.vm)
        /\ Record(Call("compile", asm_input, 0, r.res, 0, ""))
    /\ compiles' = compiles + 1
    /\ UNCHANGED <<codecvars, asmvars, hostvars>>

NextAsm == Assemble \/ CompileAssembled

SpecAsm == InitAsm /\ [][NextAsm]_vars

(***************************************************************************)
(* The host with its keys (interface.rs, run and handle_key). A round of   *)
(* the loop of run() is two steps: the event, if there is one, is handled  *)
(* (loop_at = "event"), then the VM is looked at and stepped (loop_at =    *)
(* "vm"). The text typed in the modal is a sequence of characters; the     *)
(* keys that edit the program text turn it into another of the sources.    *)
(***************************************************************************)
\* The programs the user runs: one with two INP, one that adds, one that does not
\* compile, one that runs off the end of memory, one that branches to MEMORY_SIZE
HostSourceIds ==
    {<<"two_inp">>, <<"upper_label">>, <<"run_off">>, <<"dat", "1003">>,
     <<"branch", "BRA", "edge">>}

\* The characters the user types into the modal
ModalKeys == {"4", "-", "x"}

\* modal.textarea.lines()[0].parse::<i64>(): an optional sign, then digits only and at
\* least one
parse_i64(text) ==
    Bind(IF text # <<>> /\ text[1] \in {"+", "-"} THEN Tail(text) ELSE text, LAMBDA ds :
        IF ds = <<>> \/ \E k \in 1..Len(ds) : ds[k] \notin DigitCh
        THEN [ok |-> FALSE, n |-> 0]
        ELSE [ok |-> TRUE, n |-> IF text[1] = "-" THEN 0 - ParseInt(ds) ELSE ParseInt(ds)])

\* Ctrl+R with a check of the modal only: the program can be run while the VM is on.
run_blocked_modal_only(on, in_modal) == in_modal

\* Ctrl+R: if VM on, do nothing; if in modal, do nothing
run_blocked(on, in_modal) == on \/ in_modal

InitHost ==
    /\ VmNew
    /\ CodecIdle
    /\ AsmIdle
    /\ program_textarea \in HostSourceIds
    /\ outputs = <<>>
    /\ HostNew

\* while !self.should_exit, at the poll for an event
AtEvent == Alive /\ loop_at = "event" /\ ~should_exit

\* A key that the handler does not pass to the VM
NoVmCall == UNCHANGED <<vmvars, call, prev, compiles>>

\* handle_key on a key that edits the program text
EditProgram ==
    /\ program_textarea' \in HostSourceIds
    /\ NoVmCall
    /\ UNCHANGED <<outputs, inputs, vm_on, current_popup, current_modal, should_exit>>

\* handle_key, Enter: it closes the popup; or it takes the modal away and gives the
\* number typed to the VM, nothing if the text is no number; or it goes to the program
KeyEnter ==
    /\ AtEvent
    /\ loop_at' = "vm"
    /\ IF current_popup # None
       THEN /\ current_popup' = None
            /\ NoVmCall
            /\ UNCHANGED <<program_textarea, outputs, inputs, vm_on, current_modal,
                           should_exit>>
       ELSE IF current_modal # None
       THEN /\ current_modal' = None
            /\ \E t \in {parse_i64(current_modal[1])} :
                 IF t.ok
                 THEN /\ inputs' = Append(inputs, t.n)
                      /\ \E v \in {input(VM, t.n)} : Becomes(v)
                      /\ Record(Call("input", <<>>, t.n, "Ok", 0, ""))
                 ELSE UNCHANGED <<inputs, vmvars, call, prev>>
            /\ UNCHANGED <<compiles, program_textarea, outputs, vm_on, current_popup,
                           should_exit>>
       ELSE EditProgram
    /\ UNCHANGED <<codecvars, asmvars>>

\* handle_key, Esc: nothing under a popup, else the loop is told to end
KeyEsc ==
    /\ AtEvent
    /\ loop_at' = "vm"
    /\ should_exit' = (current_popup = None \/ should_exit)
    /\ NoVmCall
    /\ UNCHANGED <<program_textarea, outputs, inputs, vm_on, current_popup, current_modal,
                   codecvars, asmvars>>

\* handle_key, a character: nothing under a popup, else it goes to the text of the
\* modal if one is up and to the program if not
KeyChar ==
    /\ AtEvent
    /\ current_modal # None => Len(current_modal[1]) < MaxModalText
    /\ loop_at' = "vm"
    /\ \E c \in ModalKeys :
        IF current_popup # None
        THEN /\ NoVmCall
             /\ UNCHANGED <<program_textarea, outputs, inputs, vm_on, current_popup,
                            current_modal, should_exit>>
        ELSE IF current_modal # None
        THEN /\ current_modal' = Some(Append(current_modal[1], c))
             /\ NoVmCall
             /\ UNCHANGED <<program_textarea, outputs, inputs, vm_on, current_popup,
                            should_exit>>
        ELSE EditProgram
    /\ UNCHANGED <<codecvars, asmvars>>

\* handle_key, Ctrl+R: nothing under a popup, with the VM on or in a modal; else
\* compile the program text: an error is shown in a popup, on success the lists are
\* cleared and the VM is on
KeyCtrlR ==
    /\ AtEvent
    /\ compiles < MaxCompiles
    /\ loop_at' = "vm"
    /\ IF current_popup # None \/ run_blocked(vm_on, current_modal # None)
       THEN /\ NoVmCall
            /\ UNCHANGED <<outputs, inputs, vm_on, current_popup>>
       ELSE \E r \in {compile(VM, SourceText(program_textarea))} :
            /\ Becomes(r.vm)
            /\ Record(Call("compile", program_textarea, 0, r.res, 0, ""))
            /\ compiles' = compiles + 1
            /\ IF r.res = "Ok"
               THEN /\ inputs' = <<>>
                    /\ outputs' = <<>>
                    /\ vm_on' = TRUE
                    /\ UNCHANGED current_popup
               ELSE /\ current_popup' = IF r.res = "Panic" THEN None ELSE Some(r.res)
                    /\ UNCHANGED <<inputs, outputs, vm_on>>
    /\ UNCHANGED <<program_textarea, current_modal, should_exit, codecvars, asmvars>>

\* handle_key, Ctrl+N: with the VM off and no modal and no popup up, clear the lists
\* and reset the VM
KeyCtrlN ==
    /\ AtEvent
    /\ loop_at' = "vm"
    /\ IF current_popup = None /\ ~vm_on /\ current_modal = None
       THEN /\ inputs' = <<>>
            /\ outputs' = <<>>
            /\ \E v \in {reset(VM)} : Becomes(v)
            /\ Record(Call("reset", <<>>, 0, "Ok", 0, ""))
       ELSE UNCHANGED <<inputs, outputs, vmvars, call, prev>>
    /\ UNCHANGED <<compiles, program_textarea, vm_on, current_popup, current_modal,
                   should_exit, codecvars, asmvars>>

\* No event is waiting: event::poll gives false
NoKey ==
    /\ AtEvent
    /\ loop_at' = "vm"
    /\ NoVmCall
    /\ UNCHANGED <<program_textarea, outputs, inputs, vm_on, current_popup, current_modal,
                   should_exit, codecvars, asmvars>>

\* run: if self.vm_on && self.current_modal.is_none()
step_allowed(on, modal) == on /\ modal = None

\* The rest of the round: the VM is off once it has halted; if it is on and no modal
\* is up it is stepped, an Output is kept and InputRequired opens the modal. The rounds
\* are followed while the VM has counted fewer than MaxRunCycles cycles.
LoopVm ==
    /\ Alive
    /\ loop_at = "vm"
    /\ halted \/ cycles < MaxRunCycles
    /\ loop_at' = "event"
    /\ \E on \in {vm_on /\ ~halted} :
        /\ vm_on' = on
        /\ IF step_allowed(on, current_modal)
           THEN \E r \in {step(VM)} :
                /\ Becomes(r.vm)
                /\ Record(Call("step", <<>>, 0, r.res, r.out, Fetched))
                /\ outputs' = IF r.res = "Output" THEN Append(outputs, r.out) ELSE outputs
                /\ current_modal' =
                      IF r.res = "InputRequired" THEN Some(<<>>) ELSE current_modal
           ELSE UNCHANGED <<vmvars, call, prev, outputs, current_modal>>
    /\ UNCHANGED <<compiles, program_textarea, inputs, current_popup, should_exit,
                   codecvars, asmvars>>

NextHost == KeyEnter \/ KeyEsc \/ KeyChar \/ KeyCtrlR \/ KeyCtrlN \/ NoKey \/ LoopVm

SpecHost == InitHost /\ [][NextHost]_vars

(***************************************************************************)
(* The host running one program that the user does not edit: Ctrl+R and    *)
(* rounds without a key, for as long as the program runs                   *)
(***************************************************************************)
InitRun ==
    /\ VmNew
    /\ CodecIdle
    /\ AsmIdle
    /\ program_textarea \in RunSourceIds
    /\ outputs = <<>>
    /\ HostNew

NextRun == KeyCtrlR \/ NoKey \/ LoopVm

SpecRun == InitRun /\ [][NextRun]_vars

(***************************************************************************)
(* The host started by main(): it holds PROGRAM; Ctrl+R compiles it and    *)
(* the loop steps the VM in every round                                    *)
(***************************************************************************)
InitSort ==
    /\ VmNew
    /\ CodecIdle
    /\ AsmIdle
    /\ program_textarea = <<"sort">>
    /\ outputs = <<>>
    /\ HostNew

\* The loop of run() goes round as long as the host lives
SpecSort == InitSort /\ [][NextRun]_vars /\ WF_vars(NextRun)

(***************************************************************************)
(* Properties                                                              *)
(***************************************************************************)
\* The VM is about to fetch an INP
AtInp == Fetched = "INP"

\* The number of instruction lines of a source: its lines that are not empty
InstructionLines(id) == Len(SelectSeq(trim(SourceText(id)), LAMBDA l : l # <<>>))

\* C1: halt idempotence. On a halted VM (step() has returned Halted and no compile()
\* has succeeded since), step() returns Halted, and step() and input() leave program
\* counter, accumulator, memory, cycle counter and halted flag as they are.
C1_HaltIdempotent ==
    [][(halted /\ call'.op \in {"step", "input"}) =>
          /\ call'.op = "step" => call'.res = "Halted"
          /\ halted'
          /\ UNCHANGED <<program_counter, accumulator, memory, cycles>>]_vars

\* A step() on a VM that was already halted, after an input() made on the halted VM
C1_Witness ==
    /\ call.op = "step" /\ call.ins = "halted" /\ call.res = "Halted"
    /\ prev.op = "input"
    /\ cycles > 0

\* C2 as claimed: suspend on input. At an INP with an empty input buffer, step() returns
\* InputRequired and leaves program counter, accumulator and memory as they are; the VM
\* is then again at an INP with an empty buffer, so the next step() does the same.
C2_SuspendOnInput ==
    [][(AtInp /\ input_buffer = None /\ call'.op = "step") =>
          /\ call'.res = "InputRequired"
          /\ UNCHANGED <<program_counter, accumulator, memory>>
          /\ AtInp' /\ input_buffer' = None]_vars

\* The first step() of INP INP OUT HLT has gone past the INP with no input: it returned
\* Advanced and the accumulator holds the cell 0, the code of INP
InpNotSuspendedReached ==
    /\ call.op = "step" /\ call.ins = "INP" /\ call.res = "Advanced"
    /\ prev.op = "compile" /\ prev.src = <<"two_inp">>
    /\ input_buffer = None
    /\ program_counter = 1
    /\ accumulator = 901

\* No step() returns InputRequired
NoInputRequired == call.res # "InputRequired" /\ prev.res # "InputRequired"

\* A step() that returns InputRequired changes no field of the VM (program counter,
\* accumulator, memory, cycle counter, input buffer, halted flag, last-accessed
\* address). By NoInputRequired no step() returns InputRequired, so no step() of the
\* VM is a case of this statement.
InputRequiredStepFrame ==
    [][(call'.op = "step" /\ call'.res = "InputRequired" /\ cycles' # cycles) =>
          UNCHANGED vmvars]_vars

\* C4 as claimed: resume after input. At an INP with a buffered value v, step() returns
\* Advanced, sets the accumulator to v, adds one to the program counter and empties the
\* buffer; a step() at an INP right after a step() that consumed a value returns
\* InputRequired.
C4_ResumeAfterInput ==
    [][/\ (AtInp /\ input_buffer # None /\ call'.op = "step") =>
             /\ call'.res = "Advanced"
             /\ accumulator' = input_buffer[1]
             /\ program_counter' = program_counter + 1
             /\ input_buffer' = None
       /\ (call.op = "step" /\ call.ins = "INP" /\ call.res = "Advanced"
           /\ AtInp /\ call'.op = "step") =>
             call'.res = "InputRequired"]_vars

\* A step() has gone past an INP with the input 4 buffered: the input is still in the
\* buffer and the accumulator holds the cell it addressed
InputNotConsumedReached ==
    /\ call.op = "step" /\ call.ins = "INP" /\ call.res = "Advanced"
    /\ prev.op = "input" /\ prev.val = 4
    /\ input_buffer = Some(4)
    /\ accumulator = 901

\* C5 as claimed: input(value) makes value the one pending input and changes no other
\* field; after two input() calls in a row an INP loads the value of the second.
C5_InputOverwrites ==
    [][/\ call'.op = "input" =>
             /\ input_buffer' = Some(call'.val)
             /\ UNCHANGED <<program_counter, accumulator, memory, cycles, halted,
                            accessing>>
       /\ (call.op = "input" /\ prev.op = "input" /\ AtInp /\ call'.op = "step") =>
             /\ call'.res = "Advanced"
             /\ accumulator' = call.val]_vars

\* input() writes the input buffer and nothing else
InputFrame ==
    [][call'.op = "input" =>
          /\ input_buffer' = Some(call'.val)
          /\ UNCHANGED <<program_counter, accumulator, memory, cycles, halted,
                         accessing>>]_vars

\* Every legal instruction has its own cell value
EncodeInjective ==
    Cardinality({encode(i) : i \in LegalInstructions}) = Cardinality(LegalInstructions)

\* C6: codec round trip. Decoding the encoding of a legal instruction gives the
\* instruction back, and no two legal instructions have the same encoding.
C6_RoundTrip ==
    /\ stage = "roundtrip" => decoded = instr
    /\ EncodeInjective

\* BRP with the largest operand went through encode and decode
C6_Witness ==
    /\ stage = "roundtrip"
    /\ instr = Ins("BRP", BandWidth - 1)
    /\ cell = 8999

\* The cell values the codec knows: the fixed codes and the bands
KnownCells ==
    {1, 901, 902, 10000} \cup (1000..3999) \cup (5000..8999) \cup (11000..13999)

\* C7: decode fails exactly on the cell values that are neither a fixed code nor in
\* a band.
C7_DecodeFailsOutsideBands ==
    stage = "probed" => (decoded = DecodeErr <=> cell \notin KnownCells)

\* A value between the STA and LDA bands was refused
C7_Witness ==
    /\ stage = "probed"
    /\ cell = 4999
    /\ decoded = DecodeErr

\* C8: skip on decode failure. When the cell at the program counter does not decode,
\* step() returns Advanced, adds one to the program counter and leaves accumulator,
\* memory, input buffer and halted flag as they are.
C8_SkipUndecodable ==
    [][(Fetched = "Err" /\ call'.op = "step") =>
          /\ call'.res = "Advanced"
          /\ program_counter' = program_counter + 1
          /\ UNCHANGED <<accumulator, memory, input_buffer, halted>>]_vars

\* A cell that does not decode was skipped while an input was pending
C8_Witness ==
    /\ call.op = "step" /\ call.ins = "Err" /\ call.res = "Advanced"
    /\ input_buffer # None
    /\ program_counter > 0

\* C9: a compile() that returns an error leaves every field of the VM as it is; a
\* source of MEMORY_SIZE instructions is accepted, and compile() returns the
\* too-large error exactly for the sources the assembler accepts that have more.
C9_FailedCompileKeepsState ==
    [][(call'.op = "compile") =>
          /\ call'.res \in {"CompilerError", "MemoryFull"} => UNCHANGED vmvars
          /\ call'.res = "MemoryFull" => InstructionLines(call'.src) > MEMORY_SIZE
          /\ call'.res = "Ok" => InstructionLines(call'.src) <= MEMORY_SIZE
          /\ call'.src = <<"full">> => call'.res = "Ok"
          /\ call'.src = <<"over">> => call'.res = "MemoryFull"]_vars

\* The source of MEMORY_SIZE lines was loaded, then the one of MEMORY_SIZE + 1 lines
\* was refused and the loaded program is still there
C9_Witness ==
    /\ call.op = "compile" /\ call.src = <<"over">> /\ call.res = "MemoryFull"
    /\ prev.op = "compile" /\ prev.src = <<"full">> /\ prev.res = "Ok"
    /\ memory[MEMORY_SIZE - 1] = 902

\* C10 as claimed: assembling a source whose operand names a label that no line
\* defines returns an error value.
C10_UnknownLabelIsError ==
    (asm_result # <<>> /\ asm_input \in UnknownLabelIds) => asm_result[1].res = "Err"

\* The memory image of a resolved program: the encoding of instruction i in cell i,
\* 0 in every cell from the program length on
Image(prog) ==
    [a \in 0..(MEMORY_SIZE - 1) |-> IF a < Len(prog) THEN encode(prog[a + 1]) ELSE 0]

\* C11 as claimed: after a compile() that succeeds, whatever the VM state before it,
\* memory is the image of the new program and the halted flag is false.
C11_CompileLoadsImage ==
    [][(call'.op = "compile" /\ call'.res = "Ok") =>
          /\ memory' = Image(assemble(trim(SourceText(call'.src))).prog)
          /\ ~halted']_vars

\* C12: reset() on a VM that is not halted leaves memory, program counter, accumulator,
\* cycle counter, input buffer and last-accessed address as they are; on a halted VM it
\* sets every memory cell, the program counter, the accumulator, the cycle counter and
\* the last-accessed address to 0 and empties the input buffer.
C12_ResetOnlyWhenHalted ==
    [][(call'.op = "reset") =>
          IF halted
          THEN /\ memory' = ZeroMemory
               /\ program_counter' = 0
               /\ accumulator' = 0
               /\ cycles' = 0
               /\ accessing' = 0
               /\ input_buffer' = None
          ELSE UNCHANGED <<memory, program_counter, accumulator, cycles, input_buffer,
                           accessing>>]_vars

\* reset() right after the step() that halted the VM at the end of memory: the program
\* is gone
C12_Witness ==
    /\ call.op = "reset"
    /\ prev.op = "step" /\ prev.ins = "end" /\ prev.res = "Halted"
    /\ halted
    /\ memory = ZeroMemory /\ cycles = 0

\* The host loop has stepped a VM that was not halted: nothing but such a step() adds
\* one to the cycle counter
Stepped == cycles' = cycles + 1

\* The operand of the instruction step() is about to fetch
FetchedData == decode(memory[program_counter]).data

\* k lookups by hand from the cell a: the value of cell a, and while lookups are left,
\* the value of the cell which that value marks
RECURSIVE HandFollow(_, _, _)
HandFollow(mem, a, k) ==
    IF k = 1 THEN mem[a] ELSE HandFollow(mem, mem[a] - MEMORY_SIZE, k - 1)

\* What op leaves in the accumulator when the accumulator holds 3 and the cell 6
ChainResult(op) ==
    CASE op = "ADD" -> 9 [] op = "SUB" -> 0 - 3 [] op = "LDA" -> 6 [] op = "STA" -> 3
      [] op = "BWA" -> 2 [] op = "BWO" -> 7 [] op = "BWX" -> 5

\* In the program SrcChain(op, k, place), the step that executes op @p: the operand is
\* the address of p plus MEMORY_SIZE, and the instruction works on the cell that k
\* lookups by hand lead to
ChainStepResolves(id) ==
    (Stepped /\ Fetched = id[2] /\ FetchedData >= MEMORY_SIZE) =>
        /\ FetchedData = ChainStart(id[4]) + MEMORY_SIZE
        /\ HandFollow(memory, ChainStart(id[4]), ChainDepth(id[3])) = ChainAddr("v")
        /\ call'.res = "Advanced"
        /\ accessing' = ChainAddr("v")
        /\ accumulator' = ChainResult(id[2])
        /\ memory' = IF id[2] = "STA" THEN [memory EXCEPT ![ChainAddr("v")] = accumulator]
                      ELSE memory

\* C13 as claimed: for a label at any address a of 0..MEMORY_SIZE-1, address 0 too,
\* the operand @label is assembled as a + MEMORY_SIZE, and executing LDA, ADD, SUB,
\* STA, BWA, BWO or BWX with it works on the cell that a chain of depth k leads to,
\* the same cell as k lookups by hand.
C13_PointerResolution ==
    [][/\ program_textarea \in ChainIds => ChainStepResolves(program_textarea)
      ]_vars

\* Pointer resolution for the labels at an address above 0
PointerResolutionAboveZero ==
    [][(program_textarea \in ChainIds /\ program_textarea[4] # "first") =>
          ChainStepResolves(program_textarea)
      ]_vars

\* STA through a chain of depth 2 from the label at address MEMORY_SIZE - 1 has
\* stored the accumulator in the cell at the end of the chain
PointerResolutionReached ==
    /\ program_textarea = <<"chain", "STA", "2", "last">>
    /\ call.op = "step" /\ call.ins = "STA" /\ call.res = "Advanced"
    /\ memory[ChainAddr("v")] = 3 /\ accessing = ChainAddr("v")

\* step() is about to execute a branch that is taken
BranchTaken ==
    \/ Fetched = "BRA"
    \/ Fetched = "BRZ" /\ accumulator = 0
    \/ Fetched = "BRP" /\ accumulator >= 0

\* C14 as claimed: a taken BRA, BRZ or BRP whose operand is MEMORY_SIZE or more (every
\* @label operand is) makes step() return a fault to the host, and the program counter
\* stays inside memory.
C14_BranchFault ==
    [][(Stepped /\ BranchTaken /\ FetchedData >= MEMORY_SIZE) =>
          /\ call'.res = "Fault"
          /\ program_counter' < MEMORY_SIZE]_vars

\* A value that is no address and no indirection marker
BadValue(x) == x < 0 \/ x = MEMORY_SIZE \/ x >= 2 * MEMORY_SIZE

\* The operand step() is about to resolve is such a value, or is the marker of a cell
\* that holds one
BadAccess ==
    \/ BadValue(FetchedData)
    \/ /\ FetchedData > MEMORY_SIZE
       /\ FetchedData < 2 * MEMORY_SIZE
       /\ BadValue(memory[FetchedData - MEMORY_SIZE])

\* C15 as claimed: when ADD, SUB, STA, LDA, BWA, BWO or BWX has an operand, or reaches
\* through indirection a cell value, that is negative, MEMORY_SIZE, or 2*MEMORY_SIZE or
\* more, step() returns a fault to the host and leaves memory as it is.
C15_DataFault ==
    [][(Stepped /\ Fetched \in MemOps /\ BadAccess) =>
          /\ call'.res = "Fault"
          /\ memory' = memory]_vars

\* The operand step() is about to resolve is the marker of a cell that holds its own
\* marker, or of one of two cells that hold the marker of each other
CycleAccess ==
    /\ FetchedData > MEMORY_SIZE
    /\ FetchedData < 2 * MEMORY_SIZE
    /\ \/ memory[FetchedData - MEMORY_SIZE] = FetchedData
       \/ /\ memory[FetchedData - MEMORY_SIZE] > MEMORY_SIZE
          /\ memory[FetchedData - MEMORY_SIZE] < 2 * MEMORY_SIZE
          /\ memory[memory[FetchedData - MEMORY_SIZE] - MEMORY_SIZE] = FetchedData

\* C16 as claimed: every step() returns, and an instruction whose operand leads into a
\* chain of markers that comes back to itself makes step() return a fault.
C16_ResolutionTerminates ==
    [][(Stepped) =>
          /\ call'.res # "Diverge"
          /\ (Fetched \in MemOps /\ CycleAccess) => call'.res = "Fault"]_vars

\* The ten values of PROGRAM in ascending order
SortedValues == <<7, 14, 19, 21, 32, 35, 50, 61, 75, 95>>

\* C17 as claimed: end-to-end sort. Running PROGRAM on a new VM, no call asks for
\* input, aborts or fails, the values put out are at every moment the first of 7, 14,
\* 19, 21, 32, 35, 50, 61, 75, 95 in that order, all ten once the VM has halted, and
\* the VM does halt.
C17_EndToEndSort ==
    /\ [](/\ call.res \in {"Ok", "Advanced", "Output", "Halted"}
          /\ Len(outputs) <= Len(SortedValues)
          /\ outputs = SubSeq(SortedValues, 1, Len(outputs))
          /\ halted => outputs = SortedValues)
    /\ <>(halted /\ call.op = "step" /\ call.res = "Halted")

\* PROGRAM has aborted on its HLT, having put out nothing
SortAbortReached ==
    /\ program_textarea = <<"sort">>
    /\ call.op = "step" /\ call.ins = "HLT" /\ call.res = "Panic"
    /\ ~halted
    /\ outputs = <<>>

\* The instruction sequence of a source, by hand: each label operand is the 0-based
\* index of the label's line among the instruction lines
ExpectedProgram(id) ==
    CASE id = <<"test_parse">> ->
            <<Ins("INP", 0), Ins("OUT", 0), Ins("STA", 8), Ins("SUB", 7), Ins("STA", 8),
              Ins("BRP", 1), Ins("HLT", 0), Ins("DAT", 1), Ins("DAT", 0)>>
      [] id = <<"blank_lines">> ->
            <<Ins("LDA", 2), Ins("DAT", 3), Ins("DAT", 0), Ins("STA", 1)>>
      [] id = <<"two_inp">> -> <<Ins("INP", 0), Ins("INP", 0), Ins("OUT", 0), Ins("HLT", 0)>>
      [] id = <<"full">> -> [k \in 1..MEMORY_SIZE |-> Ins("OUT", 0)]
      [] id = <<"over">> -> [k \in 1..(MEMORY_SIZE + 1) |-> Ins("OUT", 0)]
      [] id \in OperandIds ->
            <<Ins("HLT", 0),
              Ins(id[2], CASE id[3] = "number" -> 1
                           [] id[3] = "label" -> 2
                           [] id[3] = "pointer" -> MEMORY_SIZE + 2)>>
            \o (IF id[4] = "defined" THEN <<Ins("DAT", 5)>> ELSE <<>>)

\* C18: label addressing. Every source that assembles yields the instruction sequence
\* in which a label operand is the 0-based index of the label's line among the
\* instruction lines (empty lines and indents take no address, DAT lines and
\* instruction lines take one each) and a DAT without operand is DAT 0; assembling the
\* source again yields the same; the source of test_parse and one with empty lines,
\* indents, labels and a bare DAT assemble.
C18_LabelAddressing ==
    /\ \A i \in 1..Len(asm_result) :
          /\ asm_result[i].res = "Ok" => asm_result[i].prog = ExpectedProgram(asm_input)
          /\ asm_result[i] = asm_result[1]
    /\ (asm_result # <<>> /\ asm_input \in {<<"test_parse">>, <<"blank_lines">>}) =>
          asm_result[1].res = "Ok"

\* The source of test_parse was assembled twice: BRP loop is BRP 1 and count is the
\* ninth cell, a DAT 0
C18_Witness ==
    /\ asm_input = <<"test_parse">>
    /\ Len(asm_result) = 2
    /\ asm_result[2].res = "Ok"
    /\ asm_result[2].prog[6] = Ins("BRP", 1)
    /\ asm_result[2].prog[9] = Ins("DAT", 0)

\* C19 as claimed: every BRZ and BRP that is executed returns Advanced and leaves
\* accumulator and memory as they are; the program counter becomes the operand exactly
\* when the accumulator, as it is when the instruction executes, is 0 for BRZ and 0 or
\* more for BRP, and is one more than it was otherwise.
C19_ConditionalBranch ==
    [][(Stepped /\ Fetched \in {"BRZ", "BRP"}) =>
          /\ call'.res = "Advanced"
          /\ program_counter' =
                IF \/ Fetched = "BRZ" /\ accumulator = 0
                   \/ Fetched = "BRP" /\ accumulator >= 0
                THEN FetchedData ELSE program_counter + 1
          /\ UNCHANGED <<accumulator, memory>>]_vars

\* The same for the BRZ and BRP that are not taken or are taken to an address inside
\* memory
ConditionalBranchInMemory ==
    [][(/\ Stepped
        /\ Fetched \in {"BRZ", "BRP"}
        /\ BranchTaken => FetchedData < MEMORY_SIZE) =>
          /\ call'.res = "Advanced"
          /\ program_counter' =
                IF \/ Fetched = "BRZ" /\ accumulator = 0
                   \/ Fetched = "BRP" /\ accumulator >= 0
                THEN FetchedData ELSE program_counter + 1
          /\ UNCHANGED <<accumulator, memory>>]_vars

\* BRP was executed with the accumulator at 0 and went to the label t
BranchOnZeroReached ==
    /\ program_textarea = <<"cond", "BRP", "zero", "label">>
    /\ call.op = "step" /\ call.ins = "BRP" /\ call.res = "Advanced"
    /\ accumulator = 0
    /\ program_counter = 5

\* BRZ was executed with the accumulator at 0 and the operand @x: the step() has
\* aborted with the program counter still at the BRZ
TakenBranchAbortReached ==
    /\ program_textarea = <<"branch", "BRZ", "pointer">>
    /\ call.op = "step" /\ call.ins = "BRZ" /\ call.res = "Panic"
    /\ accumulator = 0
    /\ program_counter = 0

\* BRZ and BRP were executed on a negative accumulator with an operand outside
\* memory, and went on to the next cell
BranchNotTakenReached ==
    /\ program_textarea \in {<<"cond", op, "negative", "beyond">> : op \in {"BRZ", "BRP"}}
    /\ call.op = "step" /\ call.ins \in {"BRZ", "BRP"} /\ call.res = "Advanced"
    /\ accumulator < 0
    /\ program_counter = 3

\* C20 as claimed: a step() on a VM that is not halted returns Halted exactly when the program
\* counter is MEMORY_SIZE or more or the cell at the program counter decodes to HLT,
\* and it sets the halted flag in exactly these cases.
C20_HaltedExactly ==
    [][(Stepped /\ ~halted) =>
          /\ call'.res = "Halted" <=> Fetched \in {"end", "HLT"}
          /\ halted' <=> Fetched \in {"end", "HLT"}]_vars

\* The cell of HLT has been executed and the VM is not halted: the accumulator holds
\* the cell it addressed
HltNotHaltedReached ==
    /\ program_textarea = <<"dat", "1">>
    /\ call.op = "step" /\ call.ins = "HLT" /\ call.res = "Advanced"
    /\ ~halted
    /\ program_counter = 1
    /\ accumulator = 1

\* C21: a successful compile() on a halted VM leaves the program counter, the
\* accumulator and the cycle counter at 0 and the input buffer empty; a successful
\* compile() on a VM that is not halted leaves all four at the values they had.
C21_CompileRegisterFrame ==
    [][(call'.op = "compile" /\ call'.res = "Ok") =>
          IF halted
          THEN /\ program_counter' = 0
               /\ accumulator' = 0
               /\ cycles' = 0
               /\ input_buffer' = None
          ELSE UNCHANGED <<program_counter, accumulator, cycles, input_buffer>>
      ]_vars

\* A successful compile() on a running VM with a program counter, an accumulator, a
\* cycle counter and a pending input from the run before
C21_Witness ==
    /\ call.op = "compile" /\ call.res = "Ok"
    /\ prev.op = "input"
    /\ program_counter > 0
    /\ accumulator # 0
    /\ cycles > 0
    /\ input_buffer # None

\* A successful compile() on a halted VM: the registers of the run before are cleared
CompileAfterHaltReached ==
    /\ call.op = "compile" /\ call.res = "Ok"
    /\ prev.op = "step" /\ prev.res = "Halted"
    /\ program_counter = 0 /\ cycles = 0

\* C22: the first loading pass is redundant: every compile() ends in the state, and
\* returns the value, that compile() with the second pass alone gives from the same
\* VM state and program.
C22_FirstPassRedundant ==
    [][call'.op = "compile" =>
          \E r \in {compile_second_pass_only(VM, SourceText(call'.src))} :
              /\ call'.res = r.res
              /\ Becomes(r.vm)
      ]_vars

\* A compile() that has loaded DAT lines over cells left by another program
C22_Witness ==
    /\ call.op = "compile" /\ call.res = "Ok" /\ call.src = <<"test_parse">>
    /\ prev.op = "compile" /\ prev.res = "Ok" /\ prev.src = <<"full">>
    /\ memory[7] = 1 /\ memory[8] = 0 /\ memory[9] = 902

\* No cell value decodes to DAT
DecodeNeverDat == \A value \in RawCells : decode(value).op # "DAT"

\* C23 as claimed: the DAT arm of step() is never reached: no cell value decodes to DAT, no
\* step() fetches a DAT or aborts, and a cell loaded from a DAT line is executed as
\* what its value encodes: 1 halts, 1000 + a adds the cell a, 0 is skipped.
C23_DatArmUnreachable ==
    [][/\ DecodeNeverDat
       /\ Stepped => call'.ins # "DAT"
       /\ (Stepped /\ program_textarea \in DatIds /\ program_counter = 0) =>
            /\ memory[0] = 1 =>
                  call'.res = "Halted" /\ halted' /\ UNCHANGED <<accumulator, memory>>
            /\ memory[0] \in 1000..1999 =>
                  /\ call'.res = "Advanced"
                  /\ accumulator' = accumulator + memory[memory[0] - 1000]
                  /\ program_counter' = 1
            /\ memory[0] = 0 =>
                  /\ call'.res = "Advanced"
                  /\ program_counter' = 1
                  /\ UNCHANGED <<accumulator, memory, halted>>
      ]_vars

\* The cell of "DAT 1003" has been executed as ADD 3: the accumulator holds the 7 of
\* the cell 3
DatCellAddReached ==
    /\ program_textarea = <<"dat", "1003">>
    /\ memory[0] = 1003
    /\ call.op = "step" /\ call.ins = "ADD" /\ call.res = "Advanced"
    /\ accumulator = 7 /\ cycles = 1

\* The cell of "DAT" has been skipped
DatCellSkipReached ==
    /\ program_textarea = <<"dat", "0">>
    /\ call.op = "step" /\ call.ins = "Err" /\ call.res = "Advanced" /\ cycles = 1

\* C24: the cycle counter is monotonic under step() and input(): a step() on a VM
\* that is not halted raises it by exactly 1, whatever the step does (execute, skip
\* an undecodable cell, halt); a step() on a halted VM and an input()
\* leave it unchanged; it is lowered only by a reset() or a successful compile() on a
\* halted VM, and then to 0.
C24_CyclesMonotonic ==
    [][/\ (call'.op = "step" /\ ~halted) => cycles' = cycles + 1
       /\ (call'.op = "step" /\ halted) => cycles' = cycles
       /\ call'.op = "input" => cycles' = cycles
       /\ cycles' < cycles =>
            /\ halted
            /\ cycles' = 0
            /\ call'.op = "reset" \/ (call'.op = "compile" /\ call'.res = "Ok")
      ]_vars

\* The halting step of "BRA 99" is the third cycle: the branch, the empty cell 99, the
\* end of memory
C24_Witness ==
    /\ call.op = "step" /\ call.ins = "end" /\ call.res = "Halted"
    /\ prev.op = "step" /\ prev.ins = "Err"
    /\ halted
    /\ program_counter = MEMORY_SIZE
    /\ cycles = 3

\* Two skipped cells have been counted
SkipCountedReached ==
    /\ call.op = "step" /\ call.ins = "Err" /\ call.res = "Advanced"
    /\ prev.op = "step" /\ prev.ins = "Err"
    /\ cycles = 2 /\ program_counter = 2

\* C25 as claimed: LDR is usable. A source with the operand-less line LDR, which the
\* grammar accepts, is parsed and then resolved by the assembler without aborting:
\* assemble() returns its instructions.
C25_LdrAssembles ==
    (asm_result # <<>> /\ asm_input = <<"ldr">>) =>
        /\ parse(trim(SourceText(asm_input))).ok
        /\ asm_result[1].res = "Ok"

\* The grammar accepts the line LDR and assemble() has aborted on it
LdrAbortReached ==
    /\ asm_input = <<"ldr">>
    /\ parse(trim(SourceText(asm_input))).ok
    /\ asm_result # <<>>
    /\ asm_result[1].res = "Panic"

\* C28: reset() does not leave the halted state. On a halted VM every reset(), input()
\* and step() leaves halted true, every step() returns Halted, and so does a compile()
\* that fails; the halted flag is cleared only by a successful compile().
C28_HaltedUntilCompile ==
    [][halted =>
          /\ call'.op \in {"reset", "input", "step"} => halted'
          /\ call'.op = "step" => call'.res = "Halted"
          /\ (call'.op = "compile" /\ call'.res # "Ok") => halted'
          /\ ~halted' => (call'.op = "compile" /\ call'.res = "Ok")
      ]_vars

\* A step() that returns Halted on a VM that was halted, reset and given an input
C28_Witness ==
    /\ halted
    /\ call.op = "step" /\ call.res = "Halted" /\ call.ins = "halted"
    /\ prev.op = "input"
    /\ cycles = 0
    /\ memory = ZeroMemory
    /\ input_buffer # None

\* A successful compile() has cleared the halted flag of a VM that was reset
CompileAfterResetReached ==
    /\ ~halted
    /\ call.op = "compile" /\ call.res = "Ok"
    /\ prev.op = "reset"
    /\ compiles = 2

\* C27: a VM whose memory is all zero always halts. On a new VM that is never given a
\* program, whatever reset() and input() calls come between, the first MEMORY_SIZE
\* step() calls skip one cell each and return Advanced, the call after them returns
\* Halted without a fetch, and the VM is then halted with MEMORY_SIZE + 1 cycles and
\* accumulator 0; a caller that keeps calling step() gets there.
C27_ZeroMemoryHalts ==
    /\ [][/\ ~halted =>
               /\ memory = ZeroMemory
               /\ accumulator = 0
               /\ program_counter = cycles
          /\ (call'.op = "step" /\ ~halted) =>
               IF cycles < MEMORY_SIZE
               THEN /\ call'.res = "Advanced"
                    /\ call'.ins = "Err"
                    /\ program_counter' = program_counter + 1
                    /\ ~halted'
               ELSE /\ call'.res = "Halted"
                    /\ call'.ins = "end"
                    /\ halted'
                    /\ cycles' = MEMORY_SIZE + 1
                    /\ accumulator' = 0
         ]_vars
    /\ <>(halted /\ cycles = MEMORY_SIZE + 1 /\ accumulator = 0)

\* The new VM has halted at the end of its empty memory
C27_Witness ==
    /\ compiles = 0
    /\ call.op = "step" /\ call.res = "Halted" /\ call.ins = "end"
    /\ prev.op = "step" /\ prev.res = "Advanced"
    /\ halted
    /\ cycles = MEMORY_SIZE + 1
    /\ program_counter = MEMORY_SIZE
    /\ accumulator = 0
    /\ memory = ZeroMemory

\* C29 as claimed: early input is kept. An input that is buffered while the VM is not halted
\* stays buffered over every step() that executes something other than INP (an
\* instruction, a skipped cell, the halt), and the step() that fetches an INP with a
\* buffered input returns Advanced with that input in the accumulator and the buffer
\* empty: it never returns InputRequired.
C29_EarlyInputKept ==
    [][(call'.op = "step" /\ ~halted /\ input_buffer # None) =>
          IF Fetched = "INP"
          THEN /\ call'.res = "Advanced"
               /\ accumulator' = input_buffer[1]
               /\ input_buffer' = None
               /\ program_counter' = program_counter + 1
          ELSE /\ input_buffer' = input_buffer
               /\ call'.res # "InputRequired"
      ]_vars

\* The input 4 was given before the program ran; the INP has been executed, the input
\* is still in the buffer and the accumulator holds the cell it addressed
EarlyInputNotReadReached ==
    /\ call.src = <<>> /\ call.op = "step" /\ call.ins = "INP" /\ call.res = "Advanced"
    /\ input_buffer = Some(4)
    /\ accumulator # 4
    /\ cycles = 3

\* C26: the program counter stays within 0..MEMORY_SIZE in every state the host reaches
\* through new, compile, reset, step and input without an abort. It comes to
\* MEMORY_SIZE only by a step() at address MEMORY_SIZE - 1 that goes on to the next
\* cell, never by a branch, and the step() after that halts without a fetch.
C26_ProgramCounterRange ==
    [][/\ Alive => program_counter \in 0..MEMORY_SIZE
       /\ Alive' => program_counter' \in 0..MEMORY_SIZE
       /\ (program_counter' = MEMORY_SIZE /\ program_counter # MEMORY_SIZE) =>
            /\ call'.op = "step" /\ call'.res = "Advanced"
            /\ program_counter = MEMORY_SIZE - 1
            /\ ~halted'
       /\ (program_counter = MEMORY_SIZE /\ ~halted /\ Stepped) =>
            /\ call'.res = "Halted" /\ call'.ins = "end"
            /\ halted'
            /\ UNCHANGED <<program_counter, accumulator, memory, input_buffer, accessing>>
      ]_vars

\* The program counter has run off the end of memory and the VM is still on
C26_Witness ==
    /\ program_counter = MEMORY_SIZE
    /\ ~halted
    /\ vm_on
    /\ call.op = "step" /\ call.res = "Advanced" /\ call.ins = "Err"
    /\ prev.op = "step" /\ prev.ins = "BRA"

\* The step() at MEMORY_SIZE has halted the VM and the host has turned it off
EndOfMemoryHaltReached ==
    /\ program_counter = MEMORY_SIZE
    /\ halted
    /\ ~vm_on
    /\ call.op = "step" /\ call.res = "Halted" /\ call.ins = "end"

\* The VM is off only if it is halted or as it was created
VmOffHaltedOrNew == ~vm_on => (halted \/ VM = new)

\* C30: in the host loop compile() and reset() are called only while vm_on is false
\* and no modal is up, and vm_on is false only while the VM is halted or as new() made
\* it; so every successful compile of Ctrl+R leaves the VM running at program counter
\* 0 with accumulator 0, 0 cycles, an empty input buffer and a memory that is the image
\* of the program followed by zeros.
C30_HostCompilesCleanVm ==
    [][/\ ((compiles' # compiles \/ call'.op = "reset") /\ loop_at = "event") =>
            (~vm_on /\ current_modal = None)
       /\ VmOffHaltedOrNew
       /\ VmOffHaltedOrNew'
       /\ (compiles' # compiles /\ call'.res = "Ok") =>
            /\ vm_on'
            /\ ~halted'
            /\ program_counter' = 0
            /\ accumulator' = 0
            /\ cycles' = 0
            /\ input_buffer' = None
            /\ memory' = Image(assemble(trim(SourceText(program_textarea))).prog)
      ]_vars

\* Ctrl+R has compiled INP INP OUT HLT on a VM that had run off the end of another
\* program's memory: nothing of that run is left
C30_Witness ==
    /\ call.op = "compile" /\ call.res = "Ok" /\ call.src = <<"two_inp">>
    /\ prev.op = "step" /\ prev.res = "Halted" /\ prev.ins = "end"
    /\ compiles = 2
    /\ vm_on
    /\ loop_at = "vm"
    /\ program_counter = 0 /\ cycles = 0 /\ accumulator = 0
    /\ memory[0] = 901 /\ memory[4] = 0

\* Ctrl+N has reset a halted VM
HostResetReached ==
    /\ call.op = "reset"
    /\ prev.op = "step" /\ prev.res = "Halted"
    /\ halted /\ ~vm_on
    /\ cycles = 0 /\ outputs = <<>> /\ memory = ZeroMemory

\* In the host loop the VM is never stepped while the input modal is up; every
\* vm.input(v) is called with the modal up, an empty input buffer and the program
\* counter at an INP; the step() after it returns Advanced with v in the accumulator.
\* By HostNeverAsks no modal is ever up and vm.input is never called, so no round of
\* the host loop is a case of the second and third part.
HostModalClauses ==
    [][/\ Stepped => current_modal = None
       /\ Len(inputs') > Len(inputs) =>
            /\ current_modal # None /\ current_modal' = None
            /\ call'.op = "input"
            /\ inputs' = Append(inputs, call'.val)
            /\ input_buffer = None
            /\ input_buffer' = Some(call'.val)
            /\ AtInp
       /\ (Stepped /\ input_buffer # None) =>
            /\ call'.res = "Advanced"
            /\ accumulator' = input_buffer[1]
            /\ input_buffer' = None
      ]_vars

\* The host has stepped the VM past the first INP of INP INP OUT HLT: no modal is up,
\* no input was asked for or given, the accumulator holds the cell 0
HostInpNotAskedReached ==
    /\ program_textarea = <<"two_inp">>
    /\ vm_on
    /\ call.op = "step" /\ call.ins = "INP" /\ call.res = "Advanced"
    /\ current_modal = None
    /\ inputs = <<>>
    /\ program_counter = 1
    /\ accumulator = 901

\* In the host no modal is ever up and vm.input is never called
HostNeverAsks ==
    /\ current_modal = None
    /\ inputs = <<>>
    /\ input_buffer = None
    /\ call.op # "input"

====
